---- MODULE Spec2Model ----
(***************************************************************************)
(* Verification model of three components of the tablet:                   *)
(*   - the health streamer (go/vt/vttablet/tabletserver/health_streamer.go)*)
(*   - the builtin backup engine's ExecuteBackup / backupFiles             *)
(*   - the per-file backup / restore pipeline (backupFile / restoreFile)   *)
(* Each component has its own specification (SpecHealth, ...); the         *)
(* variables of the other components stay unchanged under it.              *)
(***************************************************************************)
EXTENDS Naturals, Integers, Sequences, FiniteSets, TLC

(***************************************************************************)
(* Bounds of the model.                                                    *)
(***************************************************************************)
streamHealthBufferSize == 2   \* --stream_health_buffer_size (default 20)
MaxChans == 1                 \* Stream calls of the streamer with all its operations
MaxSubscribers == 2           \* Stream calls of the fan-out scenario
MaxClones == 4                \* clones of hs.state made (messages produced)
MaxOpens == 1                 \* Open calls that open the streamer
S6Pushes == 5                 \* state changes pushed in the overflow scenario
MaxFiles == 2                 \* file entries of one backup
MaxConcurrency == 2           \* params.Concurrency
MaxPolls == 1                 \* rounds of the wait for the replica's position
MaxLen == 2                   \* bytes of a file
MaxGTID == 2                  \* transactions of the server (GTIDs uuid:1..MaxGTID)
MaxBinlogs == 2               \* binary log files of the server
MaxTxns == 3                  \* GTIDs a VStream session reads
MaxRows == 2                  \* row events a VStream session copies or reads
PacketSize == 10              \* the packet size (AdjustPacketSize)
MaxStarts == 3                \* starts of the schema tracker
MaxVersions == 3              \* rows of schema_version, and tracker errors

\* the channels ever made
Chans == 1..MaxSubscribers
StreamChans == 1..MaxChans

VARIABLES
    \* ---- healthStreamer fields
    hsCancel,     \* hs.cancel != nil
    hsCtx,        \* identity (generation) of hs.ctx; 0 before the first Open
    ctxDone,      \* set of generations of hs.ctx that were cancelled
    mu,           \* holder of hs.mu: "none", or the operation holding it
    clients,      \* hs.clients: set of registered channels
    state,        \* hs.state
    \* ---- channels made by register
    chBuf,        \* buffered messages of each channel
    chClosed,     \* whether close(ch) was executed
    \* ---- Stream calls, one per channel
    pcStream,     \* position of each Stream call
    streamRet,    \* what Stream returned
    streamCtx,    \* the hs.ctx generation register returned to the call
    recvd,        \* messages the call read from its channel, in order
    \* ---- SetUnhealthyThreshold call in progress (it takes no lock)
    sut,
    \* ---- process
    panicked,     \* "" or the operation whose goroutine panicked
    \* ---- the clones of hs.state made so far, in the order they were made;
    \* a message in a channel is a pointer to one of them (its index)
    produced

hvars == <<hsCancel, hsCtx, ctxDone, mu, clients, state, chBuf, chClosed,
           pcStream, streamRet, streamCtx, recvd, sut, panicked, produced>>

VARIABLES
    \* ---- the MySQL server (params.Mysqld)
    mysqld,       \* [running, superReadOnly, semiSync, replicating]
    \* ---- one ExecuteBackup call
    params,       \* [incremental, primary, healthy, disableActiveReparents]
    bpc,          \* position of the call
    saved,        \* its local variables
    ctxCancelled, \* the caller's ctx is done
    calls,        \* the calls made on params.Mysqld, in order
    bret,         \* [usable, err] once the call returned
    \* ---- backupFiles
    fes,          \* per file entry: what the backup handle stores for it
    tpc,          \* position of each per-file goroutine
    sema,         \* slots of the weighted semaphore in use
    bhErrors,     \* kinds of the errors recorded on the backup handle
    manifest      \* state of the MANIFEST sink of the backup handle

bvars == <<mysqld, params, bpc, saved, ctxCancelled, calls, bret, fes, tpc,
           sema, bhErrors, manifest>>

VARIABLES
    \* ---- the per-file pipeline
    flags,        \* the compression flags, the kind of backup, Concurrency
    fileData,     \* the bytes of each file of the data directory
    storage,      \* the bytes the backup handle stores under each name
    feHash,       \* fe.Hash of each file entry
    bres,         \* what backupFile returned for each file entry
    \* ---- one ExecuteRestore call
    bm,           \* the manifest read by the restore
    disk,         \* the file each restoreFile leaves on disk
    rres,         \* what restoreFile returned and computed for each entry
    rpc,          \* position of the call
    rret,         \* [manifest, err] once the call returned
    stateFile,    \* the restore-in-progress marker exists
    rctxDone,     \* the caller's ctx is done
    rtpc,         \* position of each per-file goroutine of restoreFiles
    rsema,        \* slots of its semaphore in use
    rec,          \* the errors recorded by the goroutines
    applied,      \* the binlog files applied by an incremental restore
    createdDir,   \* the scratch directory of an incremental restore
    corrupted     \* names whose stored bytes changed after the backup

fvars == <<flags, fileData, storage, feHash, bres, bm, disk, rres, rpc, rret,
           stateFile, rctxDone, rtpc, rsema, rec, applied, createdDir,
           corrupted>>

VARIABLES
    \* ---- one VStream session
    vs,           \* the streamer: phase, position, table maps, buffer
    binlog,       \* the binlog events the session has read, in order
    vevents,      \* the events the session has produced, in order
    sent,         \* the batches handed to the consumer callback, in order
    \* ---- the schema tracker
    schemaVersion, \* the rows of the sidecar table schema_version
    tracker       \* [open, opens, errors, gtid] of the tracker

vvars == <<vs, binlog, vevents, sent, schemaVersion, tracker>>

vars == <<hvars, bvars, fvars, vvars>>

(***************************************************************************)
(* The backup engine before any ExecuteBackup call: the state the backup   *)
(* variables keep under the specifications of the other components.        *)
(***************************************************************************)
Files == 1..MaxFiles

\* mysql.Position{}: the zero position, which has no GTID set
ZeroPosition == [flavor |-> "", gtids |-> {}]

NoFileEntry == [stored |-> "none", hash |-> FALSE, broken |-> FALSE]

NoManifest == [opened |-> FALSE, written |-> FALSE, closed |-> FALSE,
               closeErr |-> FALSE, entries |-> {},
               Position |-> ZeroPosition, FromPosition |-> ZeroPosition,
               Incremental |-> FALSE]

NoSaved == [replicaStartRequired |-> FALSE, sourceIsPrimary |-> FALSE,
            superReadOnly |-> TRUE, semiSyncSource |-> FALSE,
            semiSyncReplica |-> FALSE, deferred |-> FALSE,
            backupErr |-> "", usable |-> FALSE, polls |-> 0,
            remoteCtxDone |-> FALSE,
            position |-> ZeroPosition, fromPosition |-> ZeroPosition,
            incrementalBackupFromGTID |-> {}, incrementalBackupToGTID |-> {}]

NoReturn == [returned |-> FALSE, usable |-> FALSE, err |-> ""]

BackupIdle ==
    /\ mysqld = [running |-> TRUE, superReadOnly |-> FALSE,
                 semiSyncSource |-> FALSE, semiSyncReplica |-> FALSE,
                 replicating |-> FALSE]
    /\ params = [primary |-> TRUE, disableActiveReparents |-> FALSE,
                 concurrency |-> 1, fromPos |-> ""]
    /\ bpc = "idle"
    /\ saved = NoSaved
    /\ ctxCancelled = FALSE
    /\ calls = <<>>
    /\ bret = NoReturn
    /\ fes = [i \in Files |-> NoFileEntry]
    /\ tpc = [i \in Files |-> "idle"]
    /\ sema = 0
    /\ bhErrors = {}
    /\ manifest = NoManifest

(***************************************************************************)
(* The per-file pipeline and the restore before any call: the state these  *)
(* variables keep under the specifications of the other components.        *)
(***************************************************************************)
NoFlags == [backupStorageCompress |-> TRUE, CompressionEngineName |-> "pargzip",
            ExternalCompressorCmd |-> "", ExternalDecompressorCmd |-> "",
            ManifestExternalDecompressorCmd |-> "", incremental |-> FALSE,
            concurrency |-> 1]

NoBackupManifest == [present |-> FALSE, Incremental |-> FALSE,
                     FileEntries |-> [i \in Files |-> <<>>],
                     SkipCompress |-> FALSE, CompressionEngine |-> "",
                     ExternalDecompressor |-> ""]

NoRestoreResult == [done |-> FALSE, err |-> "", fault |-> "", hash |-> <<>>]

NoRestoreReturn == [returned |-> FALSE, manifest |-> FALSE, err |-> "",
                    kinds |-> {}]

\* everything but the flags and the files to back up
PipelineIdle ==
    /\ storage = [i \in Files |-> <<-1>>]
    /\ feHash = [i \in Files |-> <<>>]
    /\ bres = [i \in Files |-> "pending"]
    /\ bm = NoBackupManifest
    /\ disk = [i \in Files |-> [exists |-> FALSE, data |-> <<>>,
                                flushed |-> FALSE]]
    /\ rres = [i \in Files |-> NoRestoreResult]
    /\ rret = NoRestoreReturn
    /\ stateFile = FALSE
    /\ rctxDone = FALSE
    /\ rtpc = [i \in Files |-> "idle"]
    /\ rsema = 0
    /\ rec = {}
    /\ applied = <<>>
    /\ createdDir = ""
    /\ corrupted = {}

FileIdle ==
    /\ flags = NoFlags
    /\ fileData = [i \in Files |-> <<-1>>]
    /\ rpc = "idle"
    /\ PipelineIdle

(***************************************************************************)
(* No VStream session and no tracker: the state these variables keep under *)
(* the specifications of the other components.                             *)
(***************************************************************************)
NoSession == [phase |-> "idle"]
NoTracker == [open |-> FALSE, opens |-> 0, errors |-> 0, gtid |-> 0]

VStreamIdle ==
    /\ vs = NoSession
    /\ binlog = <<>>
    /\ vevents = <<>>
    /\ sent = <<>>
    /\ schemaVersion = <<>>
    /\ tracker = NoTracker

(***************************************************************************)
(* Health state.                                                           *)
(***************************************************************************)
TabletTypes == {"PRIMARY", "REPLICA"}
HealthErrors == {""}
Servings == {TRUE}
errUnintialized == "tabletserver uninitialized"

\* newHealthStreamer: the state a fresh streamer holds.
newHealthStreamer ==
    [tabletType |-> "UNKNOWN", ter |-> 0, healthError |-> errUnintialized,
     lag |-> 0, serving |-> FALSE, tables |-> <<>>, views |-> <<>>]

\* proto.Clone(s): a new object holding a deep copy of s, made by operation
\* `by` for channel `to` (0: for a broadcast to every client).
CloneState(s, by, to) == Append(produced, [st |-> s, by |-> by, to |-> to])

\* The pointer to the clone made last.
Last(log) == Len(log)

NoSUT == [pc |-> "idle", shr |-> 0, started |-> FALSE, snap |-> {},
          visited |-> {}, ch |-> 0]

HealthInit ==
    /\ hsCancel = FALSE
    /\ hsCtx = 0
    /\ ctxDone = {}
    /\ mu = "none"
    /\ clients = {}
    /\ state = newHealthStreamer
    /\ chBuf = [c \in Chans |-> <<>>]
    /\ chClosed = [c \in Chans |-> FALSE]
    /\ pcStream = [c \in Chans |-> "idle"]
    /\ streamRet = [c \in Chans |-> "none"]
    /\ streamCtx = [c \in Chans |-> 0]
    /\ recvd = [c \in Chans |-> <<>>]
    /\ sut = NoSUT
    /\ panicked = ""
    /\ produced = <<>>

Alive == panicked = ""

(***************************************************************************)
(* Open / Close                                                            *)
(***************************************************************************)
Open ==
    /\ Alive /\ mu = "none"
    /\ IF hsCancel
         THEN UNCHANGED <<hsCancel, hsCtx>>
         ELSE /\ hsCtx < MaxOpens
              /\ hsCancel' = TRUE
              /\ hsCtx' = hsCtx + 1
    /\ UNCHANGED <<ctxDone, mu, clients, state, chBuf, chClosed, pcStream,
                   streamRet, streamCtx, recvd, sut, panicked, produced>>

Close ==
    /\ Alive /\ mu = "none"
    /\ IF hsCancel
         THEN /\ ctxDone' = ctxDone \cup {hsCtx}
              /\ hsCancel' = FALSE
         ELSE UNCHANGED <<ctxDone, hsCancel>>
    /\ UNCHANGED <<hsCtx, mu, clients, state, chBuf, chClosed, pcStream,
                   streamRet, streamCtx, recvd, sut, panicked, produced>>

(***************************************************************************)
(* broadCastToClients: for every channel of hs.clients a non-blocking send;*)
(* when the send would block, close(ch) and delete(hs.clients, ch).        *)
(* A send on a channel that is already closed panics.                      *)
(***************************************************************************)
\* (mutation: the send blocks only when one more message is buffered)
FullAfterOneMore(c) == Len(chBuf[c]) > streamHealthBufferSize

\* The non-blocking send to c would block: its buffer is full.
Full(c) == Len(chBuf[c]) >= streamHealthBufferSize

SendPanics == \E c \in clients : chClosed[c]

broadCastBuf(shr) ==
    [c \in Chans |-> IF c \in clients /\ ~Full(c)
                       THEN Append(chBuf[c], shr) ELSE chBuf[c]]

broadCastClosed ==
    [c \in Chans |-> chClosed[c] \/ (c \in clients /\ Full(c))]

\* (mutation: an overflow empties hs.clients)
broadCastClientsNoneLeft ==
    IF \E c \in clients : Full(c) THEN {} ELSE clients

broadCastClients == {c \in clients : ~Full(c)}

broadCastToClients(shr, op) ==
    IF SendPanics
      THEN /\ panicked' = op
           /\ UNCHANGED <<chBuf, chClosed, clients>>
      ELSE /\ chBuf' = broadCastBuf(shr)
           /\ chClosed' = broadCastClosed
           /\ clients' = broadCastClients
           /\ UNCHANGED panicked

(***************************************************************************)
(* ChangeState (holds hs.mu for its whole body)                            *)
(***************************************************************************)
ChangeStateFields(tabletType, terTimestamp, lag, err, serving) ==
    [state EXCEPT !.tabletType = tabletType,
                  !.ter = IF tabletType = "PRIMARY" THEN terTimestamp ELSE 0,
                  !.healthError = err,
                  !.lag = lag,
                  !.serving = serving]

ChangeState(tabletType, terTimestamp, lag, err, serving) ==
    /\ Alive /\ mu = "none"
    /\ state' = ChangeStateFields(tabletType, terTimestamp, lag, err, serving)
    /\ produced' = CloneState(state', "ChangeState", 0)
    /\ broadCastToClients(Last(produced'), "ChangeState")
    /\ UNCHANGED <<hsCancel, hsCtx, ctxDone, mu, pcStream, streamRet,
                   streamCtx, recvd, sut>>

(***************************************************************************)
(* Stream: register, then the receive loop, then the deferred unregister.  *)
(***************************************************************************)
\* register up to hs.clients[ch] = struct{}{} (lines 208-216)
registerInsert(c) ==
    /\ Alive /\ mu = "none" /\ pcStream[c] = "idle"
    /\ \A d \in Chans : d < c => pcStream[d] # "idle"
    /\ IF ~hsCancel
         THEN /\ streamRet' = [streamRet EXCEPT ![c] = "UNAVAILABLE"]
              /\ pcStream' = [pcStream EXCEPT ![c] = "done"]
              /\ UNCHANGED <<mu, clients, streamCtx>>
         ELSE /\ mu' = "register"
              /\ clients' = clients \cup {c}
              /\ streamCtx' = [streamCtx EXCEPT ![c] = hsCtx]
              /\ pcStream' = [pcStream EXCEPT ![c] = "register"]
              /\ UNCHANGED streamRet
    /\ UNCHANGED <<hsCancel, hsCtx, ctxDone, state, chBuf, chClosed, recvd,
                   sut, panicked, produced>>

\* register: ch <- proto.Clone(hs.state), a blocking send (line 219)
registerSend(c) ==
    /\ Alive /\ pcStream[c] = "register"
    /\ IF chClosed[c]
         THEN /\ panicked' = "register"
              /\ UNCHANGED <<chBuf, produced, mu, pcStream>>
         ELSE /\ ~Full(c)
              /\ produced' = CloneState(state, "register", c)
              /\ chBuf' = [chBuf EXCEPT ![c] = Append(@, Last(produced'))]
              /\ mu' = "none"
              /\ pcStream' = [pcStream EXCEPT ![c] = "loop"]
              /\ UNCHANGED panicked
    /\ UNCHANGED <<hsCancel, hsCtx, ctxDone, clients, state, chClosed,
                   streamRet, streamCtx, recvd, sut>>

CallbackResults == {"ok", "EOF", "err"}

\* case shr, ok := <-ch with ok: the callback runs on the message
StreamRecv(c, cb) ==
    /\ Alive /\ pcStream[c] = "loop" /\ chBuf[c] # <<>>
    /\ recvd' = [recvd EXCEPT ![c] = Append(@, Head(chBuf[c]))]
    /\ chBuf' = [chBuf EXCEPT ![c] = Tail(@)]
    /\ IF cb = "ok"
         THEN UNCHANGED <<pcStream, streamRet>>
         ELSE /\ pcStream' = [pcStream EXCEPT ![c] = "unregister"]
              /\ streamRet' = [streamRet EXCEPT ![c] =
                                 IF cb = "EOF" THEN "nil" ELSE "callbackErr"]
    /\ UNCHANGED <<hsCancel, hsCtx, ctxDone, mu, clients, state, chClosed,
                   streamCtx, sut, panicked, produced>>

StreamReturn(c, ret) ==
    /\ pcStream' = [pcStream EXCEPT ![c] = "unregister"]
    /\ streamRet' = [streamRet EXCEPT ![c] = ret]
    /\ UNCHANGED <<hsCancel, hsCtx, ctxDone, mu, clients, state, chBuf,
                   chClosed, streamCtx, recvd, sut, panicked, produced>>

\* case shr, ok := <-ch with !ok: the channel is closed and drained
StreamClosed(c) ==
    /\ Alive /\ pcStream[c] = "loop" /\ chBuf[c] = <<>> /\ chClosed[c]
    /\ StreamReturn(c, "RESOURCE_EXHAUSTED")

\* case <-ctx.Done(): the caller's context ends at any time
StreamCtxDone(c) ==
    /\ Alive /\ pcStream[c] = "loop"
    /\ StreamReturn(c, "nil")

\* case <-hsCtx.Done()
StreamHsCtxDone(c) ==
    /\ Alive /\ pcStream[c] = "loop" /\ streamCtx[c] \in ctxDone
    /\ StreamReturn(c, "UNAVAILABLE")

\* (mutation: the deferred unregister leaves the channel in hs.clients)
unregisterKeeps(c) ==
    /\ Alive /\ mu = "none" /\ pcStream[c] = "unregister"
    /\ pcStream' = [pcStream EXCEPT ![c] = "done"]
    /\ UNCHANGED <<hsCancel, hsCtx, ctxDone, mu, clients, state, chBuf,
                   chClosed, streamRet, streamCtx, recvd, sut, panicked,
                   produced>>

unregister(c) ==
    /\ Alive /\ mu = "none" /\ pcStream[c] = "unregister"
    /\ clients' = clients \ {c}
    /\ pcStream' = [pcStream EXCEPT ![c] = "done"]
    /\ UNCHANGED <<hsCancel, hsCtx, ctxDone, mu, state, chBuf, chClosed,
                   streamRet, streamCtx, recvd, sut, panicked, produced>>

(***************************************************************************)
(* reload (holds hs.mu): the changed names are put into hs.state, the      *)
(* state is cloned and broadcast, and the names are cleared again.         *)
(***************************************************************************)
TableResults == {"err", <<>>, <<"t1">>}
ViewResults == {"err", <<>>, <<"v1">>}

\* The (tables, views) reload broadcasts, or "return" when it returns early.
reloadChanged(tablesRes, viewsRes) ==
    IF tablesRes = "err" THEN "return"
    ELSE IF viewsRes = "err" /\ Len(tablesRes) = 0 THEN "return"
    ELSE LET views == IF viewsRes = "err" THEN <<>> ELSE viewsRes IN
         IF Len(tablesRes) = 0 /\ Len(views) = 0 THEN "return"
         ELSE <<tablesRes, views>>

\* (mutation: the reload goes on whatever the tablet type is)
reloadBroadcastAnyType(connOk, tablesRes, viewsRes) ==
    /\ Alive /\ mu = "none" /\ hsCancel
    /\ connOk
    /\ reloadChanged(tablesRes, viewsRes) # "return"
    /\ state' = [state EXCEPT !.tables = reloadChanged(tablesRes, viewsRes)[1],
                              !.views = reloadChanged(tablesRes, viewsRes)[2]]
    /\ produced' = CloneState(state', "reload", 0)
    /\ broadCastToClients(Last(produced'), "reload")
    /\ mu' = "reload"
    /\ UNCHANGED <<hsCancel, hsCtx, ctxDone, pcStream, streamRet, streamCtx,
                   recvd, sut>>

\* reload on a PRIMARY that gets a connection and detects a change: the
\* names are set in the state and the state is broadcast (lines 333-373)
reloadBroadcast(connOk, tablesRes, viewsRes) ==
    /\ Alive /\ mu = "none" /\ hsCancel
    /\ state.tabletType = "PRIMARY"
    /\ connOk
    /\ reloadChanged(tablesRes, viewsRes) # "return"
    /\ state' = [state EXCEPT !.tables = reloadChanged(tablesRes, viewsRes)[1],
                              !.views = reloadChanged(tablesRes, viewsRes)[2]]
    /\ produced' = CloneState(state', "reload", 0)
    /\ broadCastToClients(Last(produced'), "reload")
    /\ mu' = "reload"
    /\ UNCHANGED <<hsCancel, hsCtx, ctxDone, pcStream, streamRet, streamCtx,
                   recvd, sut>>

\* lines 374-377: clear the names, return, unlock
reloadClear ==
    /\ Alive /\ mu = "reload"
    /\ state' = [state EXCEPT !.tables = <<>>, !.views = <<>>]
    /\ mu' = "none"
    /\ UNCHANGED <<hsCancel, hsCtx, ctxDone, clients, chBuf, chClosed,
                   pcStream, streamRet, streamCtx, recvd, sut, panicked,
                   produced>>

\* reload that returns without a broadcast: not PRIMARY, no connection,
\* a failed query or no change detected.  Nothing of the streamer changes.
reloadReturn(connOk, tablesRes, viewsRes) ==
    /\ Alive /\ mu = "none" /\ hsCancel
    /\ \/ state.tabletType # "PRIMARY"
       \/ ~connOk
       \/ reloadChanged(tablesRes, viewsRes) = "return"
    /\ UNCHANGED <<hvars, bvars, fvars, vvars>>

(***************************************************************************)
(* SetUnhealthyThreshold: takes no lock, so its statements interleave with *)
(* every other operation.                                                  *)
(***************************************************************************)
\* line 319: shr := proto.Clone(hs.state)
sutClone ==
    /\ Alive /\ sut.pc = "idle"
    /\ produced' = CloneState(state, "SetUnhealthyThreshold", 0)
    /\ sut' = [NoSUT EXCEPT !.pc = "range", !.shr = Last(produced')]
    /\ UNCHANGED <<hsCancel, hsCtx, ctxDone, mu, clients, state, chBuf,
                   chClosed, pcStream, streamRet, streamCtx, recvd, panicked>>

\* line 320: for ch := range hs.clients yields a channel not yet visited
sutRange(c) ==
    /\ Alive /\ sut.pc = "range"
    /\ c \in clients \ sut.visited
    /\ sut' = [sut EXCEPT !.pc = "select", !.ch = c, !.started = TRUE,
                          !.snap = IF sut.started THEN @ ELSE clients]
    /\ UNCHANGED <<hsCancel, hsCtx, ctxDone, mu, clients, state, chBuf,
                   chClosed, pcStream, streamRet, streamCtx, recvd, panicked,
                   produced>>

\* the loop ends once every channel that was in the map when it started and
\* still is in it was visited (a channel added meanwhile may be missed)
sutDone ==
    /\ Alive /\ sut.pc = "range"
    /\ IF sut.started THEN (sut.snap \cap clients) \subseteq sut.visited
                      ELSE clients = {}
    /\ sut' = NoSUT
    /\ UNCHANGED <<hsCancel, hsCtx, ctxDone, mu, clients, state, chBuf,
                   chClosed, pcStream, streamRet, streamCtx, recvd, panicked,
                   produced>>

\* lines 321-325: select { case ch <- shr: default: close(ch) }
sutSelect ==
    /\ Alive /\ sut.pc = "select"
    /\ IF chClosed[sut.ch]
         THEN /\ panicked' = "SetUnhealthyThreshold"
              /\ UNCHANGED <<chBuf, chClosed, sut>>
         ELSE IF ~Full(sut.ch)
           THEN /\ chBuf' = [chBuf EXCEPT ![sut.ch] = Append(@, sut.shr)]
                /\ sut' = [sut EXCEPT !.pc = "range",
                                      !.visited = @ \cup {sut.ch}]
                /\ UNCHANGED <<chClosed, panicked>>
           ELSE /\ chClosed' = [chClosed EXCEPT ![sut.ch] = TRUE]
                /\ sut' = [sut EXCEPT !.pc = "delete"]
                /\ UNCHANGED <<chBuf, panicked>>
    /\ UNCHANGED <<hsCancel, hsCtx, ctxDone, mu, clients, state, pcStream,
                   streamRet, streamCtx, recvd, produced>>

\* line 326: delete(hs.clients, ch)
sutDelete ==
    /\ Alive /\ sut.pc = "delete"
    /\ clients' = clients \ {sut.ch}
    /\ sut' = [sut EXCEPT !.pc = "range", !.visited = @ \cup {sut.ch}]
    /\ UNCHANGED <<hsCancel, hsCtx, ctxDone, mu, state, chBuf, chClosed,
                   pcStream, streamRet, streamCtx, recvd, panicked, produced>>

(***************************************************************************)
(* The health streamer with all its operations.                            *)
(***************************************************************************)
TerTimestamps == {1}
Lags == {0}

\* The model stops making clones after MaxClones of them.
MoreClones == Len(produced) + Cardinality({c \in Chans : pcStream[c] = "register"})
                < MaxClones

HealthNext ==
    \/ /\ Open
       /\ UNCHANGED <<bvars, fvars, vvars>>
    \/ /\ Close
       /\ UNCHANGED <<bvars, fvars, vvars>>
    \/ /\ \E tt \in TabletTypes, ter \in TerTimestamps, lag \in Lags,
             err \in HealthErrors, serving \in Servings :
             MoreClones /\ ChangeState(tt, ter, lag, err, serving)
       /\ UNCHANGED <<bvars, fvars, vvars>>
    \/ /\ \E c \in StreamChans : MoreClones /\ registerInsert(c)
       /\ UNCHANGED <<bvars, fvars, vvars>>
    \/ /\ \E c \in Chans : registerSend(c)
       /\ UNCHANGED <<bvars, fvars, vvars>>
    \/ /\ \E c \in Chans, cb \in CallbackResults : StreamRecv(c, cb)
       /\ UNCHANGED <<bvars, fvars, vvars>>
    \/ /\ \E c \in Chans : StreamClosed(c)
       /\ UNCHANGED <<bvars, fvars, vvars>>
    \/ /\ \E c \in Chans : StreamCtxDone(c)
       /\ UNCHANGED <<bvars, fvars, vvars>>
    \/ /\ \E c \in Chans : StreamHsCtxDone(c)
       /\ UNCHANGED <<bvars, fvars, vvars>>
    \/ /\ \E c \in Chans : unregister(c)
       /\ UNCHANGED <<bvars, fvars, vvars>>
    \/ /\ \E connOk \in BOOLEAN, t \in TableResults, v \in ViewResults :
             MoreClones /\ reloadBroadcast(connOk, t, v)
       /\ UNCHANGED <<bvars, fvars, vvars>>
    \/ /\ reloadClear
       /\ UNCHANGED <<bvars, fvars, vvars>>
    \/ /\ \E connOk \in BOOLEAN, t \in TableResults, v \in ViewResults :
             reloadReturn(connOk, t, v)
       /\ UNCHANGED <<bvars, fvars, vvars>>
    \/ /\ MoreClones /\ sutClone
       /\ UNCHANGED <<bvars, fvars, vvars>>
    \/ /\ \E c \in Chans : sutRange(c)
       /\ UNCHANGED <<bvars, fvars, vvars>>
    \/ /\ sutDone
       /\ UNCHANGED <<bvars, fvars, vvars>>
    \/ /\ sutSelect
       /\ UNCHANGED <<bvars, fvars, vvars>>
    \/ /\ sutDelete
       /\ UNCHANGED <<bvars, fvars, vvars>>

Init ==
    /\ HealthInit
    /\ BackupIdle
    /\ FileIdle
    /\ VStreamIdle

SpecHealth == Init /\ [][HealthNext]_vars

(***************************************************************************)
(* The overflow scenario: an open streamer, one subscriber that reads      *)
(* nothing while S6Pushes state changes are pushed with ChangeState, and   *)
(* reads afterwards.                                                       *)
(***************************************************************************)
\* ChangeState calls made so far
Pushes == Cardinality({i \in 1..Len(produced) : produced[i].by = "ChangeState"})

S6Init ==
    /\ HealthInit
    /\ BackupIdle
    /\ FileIdle
    /\ VStreamIdle

S6Next ==
    \/ /\ Open
       /\ UNCHANGED <<bvars, fvars, vvars>>
    \/ /\ registerInsert(1)
       /\ UNCHANGED <<bvars, fvars, vvars>>
    \/ /\ registerSend(1)
       /\ UNCHANGED <<bvars, fvars, vvars>>
    \/ /\ \E tt \in TabletTypes, ter \in TerTimestamps, lag \in Lags,
             err \in HealthErrors, serving \in Servings :
             /\ pcStream[1] = "loop" /\ Pushes < S6Pushes
             /\ ChangeState(tt, ter, lag, err, serving)
       /\ UNCHANGED <<bvars, fvars, vvars>>
    \/ /\ Pushes = S6Pushes /\ StreamRecv(1, "ok")
       /\ UNCHANGED <<bvars, fvars, vvars>>
    \/ /\ Pushes = S6Pushes /\ StreamClosed(1)
       /\ UNCHANGED <<bvars, fvars, vvars>>
    \/ /\ unregister(1)
       /\ UNCHANGED <<bvars, fvars, vvars>>

SpecS6 == S6Init /\ [][S6Next]_vars

(***************************************************************************)
(* Properties of the health streamer.                                      *)
(***************************************************************************)
IsPrefix(s, t) == Len(s) <= Len(t) /\ \A i \in 1..Len(s) : s[i] = t[i]

\* The pointer to the clone register made for channel c (0: none yet).
First(c) ==
    IF \E i \in 1..Len(produced) : produced[i].to = c
      THEN CHOOSE i \in 1..Len(produced) : produced[i].to = c
      ELSE 0

Indices(n) == [i \in 1..n |-> i]

InStream(c, i) == i >= First(c) /\ produced[i].to \in {0, c}

\* What was produced for c since its registration: its initial clone,
\* then every clone made for a broadcast.
Expected(c) ==
    IF First(c) = 0 THEN <<>>
    ELSE SelectSeq(Indices(Len(produced)), LAMBDA i : InStream(c, i))

\* A step in which ChangeState or reload clones the state and broadcasts it.
BroadcastStep ==
    /\ Len(produced') = Len(produced) + 1
    /\ produced'[Len(produced')].by \in {"ChangeState", "reload"}

\* C3: every broadcast of ChangeState or reload completes, and for every
\* registered subscriber it either enqueues the new state or, when the
\* buffer is full, closes the channel and removes the subscriber in that
\* same step.
C3_BroadcastNeverBlocks ==
    [][BroadcastStep =>
         /\ panicked' = ""
         /\ \A c \in clients :
              \/ /\ ~Full(c)
                 /\ chBuf'[c] = Append(chBuf[c], Len(produced'))
                 /\ c \in clients' /\ ~chClosed'[c]
              \/ /\ Full(c)
                 /\ chBuf'[c] = chBuf[c]
                 /\ c \notin clients' /\ chClosed'[c]]_vars

\* C4: a subscriber reads the states produced for it in the order they
\* were produced: every message it reads was produced after the one it
\* read before (no state out of production order, no duplicate).
C4_ObservedInProductionOrder ==
    \A c \in Chans :
        \A i \in 2..Len(recvd[c]) : recvd[c][i - 1] < recvd[c][i]

\* C10: the first message a subscriber reads is the clone register made of
\* the state current at its registration, and nothing produced before that
\* clone is ever delivered to it.
C10_InitialStateFirst ==
    \A c \in Chans :
        recvd[c] # <<>> =>
            /\ recvd[c][1] = First(c)
            /\ \A i \in 1..Len(recvd[c]) : recvd[c][i] >= First(c)

\* C9 as stated: a subscriber that reads nothing is still open after each
\* of the first three state changes.
C9_ClosesAfterThird ==
    (pcStream[1] = "loop" /\ recvd[1] = <<>> /\ Pushes <= 3) => ~chClosed[1]

Min(a, b) == IF a <= b THEN a ELSE b

\* C9 amended: the state sent at registration takes one place of the
\* buffer, so a subscriber that reads nothing is closed and removed by the
\* push that finds the buffer full, which is push number
\* streamHealthBufferSize (the 2nd for size 2); no push panics, and the
\* reads that follow return the buffered states in order and then observe
\* the close.
C9_ClosesWhenBufferFull ==
    /\ panicked = ""
    /\ (pcStream[1] = "loop" /\ recvd[1] = <<>>) =>
         /\ chClosed[1] <=> Pushes >= streamHealthBufferSize
         /\ 1 \in clients <=> Pushes < streamHealthBufferSize
         /\ chBuf[1] = Indices(Min(Pushes + 1, streamHealthBufferSize))
    /\ IsPrefix(recvd[1], Indices(streamHealthBufferSize))
    /\ streamRet[1] = "RESOURCE_EXHAUSTED" =>
         /\ recvd[1] = Indices(streamHealthBufferSize)
         /\ Pushes = S6Pushes

\* All pushes were made, the subscriber read the buffered states and
\* observed the close.
C9_Witness ==
    /\ Pushes = S6Pushes
    /\ streamRet[1] = "RESOURCE_EXHAUSTED"
    /\ Len(recvd[1]) = streamHealthBufferSize

HasNames(st) == st.tables # <<>> \/ st.views # <<>>

\* C11: the names detected by a reload are carried by the one broadcast of
\* that reload: once reload has returned, hs.state has both lists empty, and
\* every message sent to a subscriber that carries names is the clone
\* reload made for its own broadcast (no message of ChangeState, register
\* or SetUnhealthyThreshold carries them).
C11_NamesInOneBroadcast ==
    /\ mu # "reload" => ~HasNames(state)
    /\ \A c \in Chans :
          \A i \in 1..Len(chBuf[c] \o recvd[c]) :
              HasNames(produced[(chBuf[c] \o recvd[c])[i]].st) =>
                  produced[(chBuf[c] \o recvd[c])[i]].by = "reload"

\* C12: what Stream returns follows from why it ends.  A call made while
\* the streamer is not open returns UNAVAILABLE and registers nothing; a
\* registered call returns UNAVAILABLE only when the hs.ctx it was given is
\* done, RESOURCE_EXHAUSTED only when its channel is closed and drained,
\* the callback's error only after the callback ran, and nil otherwise;
\* once the call has returned its channel is not in hs.clients.
C12_StreamResult ==
    [][\A c \in Chans :
         /\ pcStream[c] = "idle" /\ pcStream'[c] # "idle" =>
               IF hsCancel
                 THEN c \in clients' /\ streamRet'[c] = "none"
                 ELSE /\ pcStream'[c] = "done"
                      /\ streamRet'[c] = "UNAVAILABLE"
                      /\ c \notin clients' /\ chBuf'[c] = <<>>
         /\ pcStream[c] = "loop" /\ pcStream'[c] # "loop" =>
               /\ pcStream'[c] = "unregister"
               /\ streamRet'[c] \in {"nil", "UNAVAILABLE",
                                     "RESOURCE_EXHAUSTED", "callbackErr"}
               /\ streamRet'[c] = "UNAVAILABLE" => streamCtx[c] \in ctxDone
               /\ streamRet'[c] = "RESOURCE_EXHAUSTED" =>
                     chClosed[c] /\ chBuf[c] = <<>>
               /\ streamRet'[c] = "callbackErr" =>
                     Len(recvd'[c]) = Len(recvd[c]) + 1
         /\ pcStream[c] = "loop" /\ pcStream'[c] = "loop" =>
               streamRet'[c] = "none"
         /\ pcStream[c] \in {"unregister", "done"} =>
               streamRet'[c] = streamRet[c]
         /\ pcStream'[c] = "done" => c \notin clients']_vars

C12_Witness ==
    \E c \in Chans :
        /\ pcStream[c] = "done"
        /\ streamRet[c] = "RESOURCE_EXHAUSTED"
        /\ recvd[c] # <<>>
        /\ c \notin clients

(***************************************************************************)
(* The builtin backup engine: one ExecuteBackup call                       *)
(* (go/vt/mysqlctl/builtinbackupengine.go).  params.Mysqld, the backup     *)
(* handle and the caller's context are the environment: each call on them  *)
(* succeeds or fails as the environment decides.                           *)
(***************************************************************************)
SemiSyncSettings == {<<FALSE, FALSE>>, <<TRUE, FALSE>>, <<FALSE, TRUE>>}

\* the transactions of the server, all of one server UUID
GTIDs == 1..MaxGTID

\* mysql.ParsePosition(Mysql56FlavorID, s): a position that holds the GTID
\* set s, also when s is empty
ParsePosition(flavor, gtids) == [flavor |-> flavor, gtids |-> gtids]

\* Position.IsZero(): the position has no GTID set at all
IsZero(pos) == pos = ZeroPosition

\* the position of the server a full backup is taken of
ServerPosition == ParsePosition("MySQL56", GTIDs)

\* params.IncrementalFromPos: "" asks for a full backup
autoIncrementalFromPos == "auto"
FromPositions == {"", autoIncrementalFromPos, "MySQL56/uuid:1",
                  "MariaDB/0-1-10", "garbage"}

\* (mutation: every backup takes the path of a full backup)
isIncrementalNever == FALSE

\* params.IncrementalFromPos != ""
isIncrementalBackup == params.fromPos # ""

\* the servers a backup is taken of: a primary, or a replica whose
\* replication is healthy or stopped; semi-sync, when on, is on for the
\* server's own role
Servers ==
    {[primary |-> TRUE, replicating |-> FALSE],
     [primary |-> FALSE, replicating |-> TRUE],
     [primary |-> FALSE, replicating |-> FALSE]}

\* (an incremental backup does not look at the settings of the server: it
\* starts from one setting)
BackupInit ==
    /\ \E srv \in Servers, sro \in BOOLEAN, semi \in BOOLEAN,
          dar \in BOOLEAN, n \in 1..MaxConcurrency, from \in FromPositions :
          /\ dar => srv.replicating
          /\ from # "" => srv.primary /\ ~sro /\ ~semi /\ ~dar
          /\ mysqld = [running |-> TRUE, superReadOnly |-> sro,
                       semiSyncSource |-> semi /\ srv.primary,
                       semiSyncReplica |-> semi /\ ~srv.primary,
                       replicating |-> srv.replicating]
          /\ params = [primary |-> srv.primary,
                       disableActiveReparents |-> dar,
                       concurrency |-> n, fromPos |-> from]
    /\ bpc = "ExecuteBackup"
    /\ saved = NoSaved
    /\ ctxCancelled = FALSE
    /\ calls = <<>>
    /\ bret = NoReturn
    /\ fes = [i \in Files |-> NoFileEntry]
    /\ tpc = [i \in Files |-> "idle"]
    /\ sema = 0
    /\ bhErrors = {}
    /\ manifest = NoManifest

taskVars == <<fes, tpc, sema, bhErrors, manifest>>

\* a context derived from the caller's ctx is done once ctx is
Done(ctx) == ctx \in {"ctx", "shutdownCtx", "remoteCtx"} /\ ctxCancelled

\* the calls made so far, followed by one more
Call(cs, op, ok, ctx) ==
    Append(cs, [op |-> op, ok |-> ok, ctx |-> ctx, done |-> Done(ctx)])

Continue(pc, m, cs) ==
    /\ bpc' = pc
    /\ mysqld' = m
    /\ calls' = cs
    /\ UNCHANGED bret

\* a return of executeFullBackup / executeIncrementalBackup; the deferred
\* SetSuperReadOnly(false) of the primary runs on the way out
Return(usable, err, m, cs) ==
    \E dok \in IF saved.deferred /\ m.running THEN BOOLEAN ELSE {FALSE} :
        /\ bret' = [returned |-> TRUE, usable |-> usable, err |-> err]
        /\ bpc' = "returned"
        /\ IF saved.deferred
             THEN /\ calls' = Call(cs, "SetSuperReadOnly(false)", dok, "none")
                  /\ mysqld' = IF dok THEN [m EXCEPT !.superReadOnly = FALSE]
                                      ELSE m
             ELSE /\ calls' = cs
                  /\ mysqld' = m

\* the caller's context is cancelled or times out during the call
CancelCtx ==
    /\ bpc \notin {"idle", "returned"}
    /\ ~ctxCancelled
    /\ ctxCancelled' = TRUE
    /\ UNCHANGED <<mysqld, params, bpc, saved, calls, bret, taskVars, hvars, fvars, vvars>>

ExecuteBackup ==
    /\ bpc = "ExecuteBackup"
    /\ IF isIncrementalBackup
         THEN /\ bpc' = "inc.GetServerUUID"
              /\ UNCHANGED <<saved, calls>>
         ELSE /\ bpc' = "ReplicationStatus"
              /\ saved' = [saved EXCEPT
                     !.semiSyncSource = mysqld.semiSyncSource,
                     !.semiSyncReplica = mysqld.semiSyncReplica]
              /\ calls' = Call(calls, "SemiSyncEnabled", TRUE, "none")
    /\ UNCHANGED <<mysqld, params, ctxCancelled, bret, taskVars, hvars, fvars, vvars>>

\* what Mysqld.ReplicationStatus answers on this server
ReplicationStatusResults ==
    IF params.primary THEN {"ErrNotReplica", "err"} ELSE {"nil", "err"}

fullReplicationStatus(res) ==
    /\ bpc = "ReplicationStatus"
    /\ res \in ReplicationStatusResults
    /\ LET cs == Call(calls, "ReplicationStatus", res # "err", "none") IN
       CASE res = "nil" ->
              /\ saved' = [saved EXCEPT !.replicaStartRequired =
                               mysqld.replicating /\ ~params.disableActiveReparents]
              /\ Continue("IsReadOnly", mysqld, cs)
         [] res = "ErrNotReplica" ->
              /\ saved' = [saved EXCEPT !.sourceIsPrimary = TRUE]
              /\ Continue("IsReadOnly", mysqld, cs)
         [] OTHER ->
              /\ Return(FALSE, "can't get replica status", mysqld, cs)
              /\ UNCHANGED saved
    /\ UNCHANGED <<params, ctxCancelled, taskVars, hvars, fvars, vvars>>

fullReadOnly(okRO, okSRO) ==
    /\ bpc = "IsReadOnly"
    /\ LET cs1 == Call(calls, "IsReadOnly", okRO, "none")
           cs2 == Call(cs1, "IsSuperReadOnly", okSRO, "none") IN
       IF ~okRO
         THEN /\ Return(FALSE, "failed to get read_only status", mysqld, cs1)
              /\ UNCHANGED saved
         ELSE IF ~okSRO
         THEN /\ Return(FALSE, "can't get super_read_only status", mysqld, cs2)
              /\ UNCHANGED saved
         ELSE /\ saved' = [saved EXCEPT !.superReadOnly = mysqld.superReadOnly]
              /\ Continue(IF saved.sourceIsPrimary
                            THEN IF ~mysqld.superReadOnly
                                   THEN "SetSuperReadOnly(true)"
                                   ELSE "PrimaryPosition"
                            ELSE "StopReplication", mysqld, cs2)
    /\ UNCHANGED <<params, ctxCancelled, taskVars, hvars, fvars, vvars>>

fullSetSuperReadOnly(ok) ==
    /\ bpc = "SetSuperReadOnly(true)"
    /\ LET cs == Call(calls, "SetSuperReadOnly(true)", ok, "none") IN
       IF ok
         THEN /\ saved' = [saved EXCEPT !.deferred = TRUE]
              /\ Continue("PrimaryPosition",
                          [mysqld EXCEPT !.superReadOnly = TRUE], cs)
         ELSE /\ Return(FALSE, "failed to enable super_read_only", mysqld, cs)
              /\ UNCHANGED saved
    /\ UNCHANGED <<params, ctxCancelled, taskVars, hvars, fvars, vvars>>

fullPrimaryPosition(ok) ==
    /\ bpc = "PrimaryPosition"
    /\ LET cs == Call(calls, "PrimaryPosition", ok, "none") IN
       IF ok THEN Continue("GetGTIDPurged", mysqld, cs)
             ELSE Return(FALSE, "can't get position on primary", mysqld, cs)
    /\ saved' = IF ok THEN [saved EXCEPT !.position = ServerPosition]
                      ELSE saved
    /\ UNCHANGED <<params, ctxCancelled, taskVars, hvars, fvars, vvars>>

fullStopReplication(ok) ==
    /\ bpc = "StopReplication"
    /\ LET cs == Call(calls, "StopReplication", ok, "none") IN
       IF ok THEN Continue("ReplicaPosition",
                           [mysqld EXCEPT !.replicating = FALSE], cs)
             ELSE Return(FALSE, "can't stop replica", mysqld, cs)
    /\ UNCHANGED <<params, saved, ctxCancelled, taskVars, hvars, fvars, vvars>>

fullReplicaPosition(ok) ==
    /\ bpc = "ReplicaPosition"
    /\ LET cs == Call(calls, "ReplicationStatus", ok, "none") IN
       IF ok THEN Continue("GetGTIDPurged", mysqld, cs)
             ELSE Return(FALSE, "can't get replica status", mysqld, cs)
    /\ saved' = IF ok THEN [saved EXCEPT !.position = ServerPosition]
                      ELSE saved
    /\ UNCHANGED <<params, ctxCancelled, taskVars, hvars, fvars, vvars>>

fullGTIDPurged(ok) ==
    /\ bpc = "GetGTIDPurged"
    /\ LET cs == Call(calls, "GetGTIDPurged", ok, "ctx") IN
       IF ok THEN Continue("GetServerUUID", mysqld, cs)
             ELSE Return(FALSE, "can't get gtid_purged", mysqld, cs)
    /\ UNCHANGED <<params, saved, ctxCancelled, taskVars, hvars, fvars, vvars>>

fullServerUUID(ok) ==
    /\ bpc = "GetServerUUID"
    /\ LET cs == Call(calls, "GetServerUUID", ok, "ctx") IN
       IF ok THEN Continue("Shutdown", mysqld, cs)
             ELSE Return(FALSE, "can't get server uuid", mysqld, cs)
    /\ UNCHANGED <<params, saved, ctxCancelled, taskVars, hvars, fvars, vvars>>

\* (mutation: the error of Mysqld.Shutdown is ignored)
fullShutdownAnyway(ok) ==
    /\ bpc = "Shutdown"
    /\ Done("shutdownCtx") => ~ok
    /\ Continue("backupFiles",
                IF ok THEN [mysqld EXCEPT !.running = FALSE,
                                          !.replicating = FALSE]
                      ELSE mysqld,
                Call(calls, "Shutdown", ok, "shutdownCtx"))
    /\ UNCHANGED <<params, saved, ctxCancelled, taskVars, hvars, fvars, vvars>>

\* Mysqld.Shutdown under shutdownCtx: a call with a done context fails
fullShutdown(ok) ==
    /\ bpc = "Shutdown"
    /\ Done("shutdownCtx") => ~ok
    /\ LET cs == Call(calls, "Shutdown", ok, "shutdownCtx") IN
       IF ok THEN Continue("backupFiles",
                           [mysqld EXCEPT !.running = FALSE,
                                          !.replicating = FALSE], cs)
             ELSE Return(FALSE, "can't shutdown mysqld", mysqld, cs)
    /\ UNCHANGED <<params, saved, ctxCancelled, taskVars, hvars, fvars, vvars>>

(***************************************************************************)
(* backupFiles: one goroutine per file entry under a weighted semaphore,   *)
(* then the MANIFEST.                                                      *)
(***************************************************************************)
\* never an error recorded
HasErrorsNever == FALSE

\* bh.HasErrors()
HasErrors == bhErrors # {}

\* the errors of the steps of backupFile are recorded as one kind, the
\* error of closing its destination as another
ErrorKind(err) ==
    IF err \in {"acquire", "context canceled", "storage",
                "failed to close file"} THEN err
    ELSE "backupFile"

\* (mutation: the error of Close is the result whatever came before)
deferredCloseShadows(finalErr, closeOk, closeErr) ==
    IF closeOk THEN finalErr ELSE closeErr

\* defer func() { if closeErr := wc.Close(); finalErr == nil { finalErr =
\* closeErr } }(): the result of a step once its sink was closed
deferredClose(finalErr, closeOk, closeErr) ==
    IF closeOk \/ finalErr # "" THEN finalErr ELSE closeErr

\* bh.RecordError(err): a nil error records nothing
RecordError(errs, err) ==
    IF err = "" THEN errs ELSE errs \cup {ErrorKind(err)}

\* usable whatever the copy did
UsableAlways(backupErr) == TRUE

\* usable := backupErr == nil
Usable(backupErr) == backupErr = ""

\* backupFiles returns finalErr to executeFullBackup, which keeps it as
\* backupErr and goes on, or to executeIncrementalBackup, which returns
backupFilesReturn(finalErr, cs) ==
    IF isIncrementalBackup
      THEN /\ Return(Usable(finalErr), finalErr, mysqld, cs)
           /\ UNCHANGED saved
      ELSE /\ saved' = [saved EXCEPT !.backupErr = finalErr,
                                     !.usable = Usable(finalErr)]
           /\ Continue("Start", mysqld, cs)

\* findFilesToBackup / binlogFilesToBackup, then the goroutines are spawned
backupFilesFind(ok) ==
    /\ bpc = "backupFiles"
    /\ IF ok
         THEN /\ tpc' = [i \in Files |-> "Acquire"]
              /\ Continue("wg.Wait", mysqld, calls)
              /\ UNCHANGED saved
         ELSE /\ backupFilesReturn("can't find files to backup", calls)
              /\ UNCHANGED tpc
    /\ UNCHANGED <<params, ctxCancelled, fes, sema, bhErrors, manifest, hvars, fvars, vvars>>

\* (mutation: the semaphore grants a slot whatever is in use)
SlotAlways(used, n) == TRUE

\* semaphore.NewWeighted(n): Acquire(ctx, 1) gets a slot when fewer than n
\* are in use
SlotFree(used, n) == used < n

\* sema.Acquire(ctx, 1): succeeds when a slot is free, fails when ctx is
\* done (with a free slot and a done ctx either may happen)
taskAcquire(i, ok) ==
    /\ tpc[i] = "Acquire"
    /\ IF ok
         THEN /\ SlotFree(sema, params.concurrency)
              /\ sema' = sema + 1
              /\ tpc' = [tpc EXCEPT ![i] = "check"]
              /\ UNCHANGED bhErrors
         ELSE /\ ctxCancelled
              /\ bhErrors' = RecordError(bhErrors, "acquire")
              /\ tpc' = [tpc EXCEPT ![i] = "done"]
              /\ UNCHANGED sema
    /\ UNCHANGED <<mysqld, params, bpc, saved, ctxCancelled, calls, bret,
                   fes, manifest, hvars, fvars, vvars>>

\* (mutation: a task that is skipped or cancelled keeps its slot)
taskCheckKeepsSlot(i) ==
    /\ tpc[i] = "check"
    /\ IF ctxCancelled
         THEN /\ bhErrors' = RecordError(bhErrors, "context canceled")
              /\ tpc' = [tpc EXCEPT ![i] = "done"]
              /\ UNCHANGED sema
         ELSE IF HasErrors
         THEN /\ tpc' = [tpc EXCEPT ![i] = "done"]
              /\ UNCHANGED <<sema, bhErrors>>
         ELSE /\ tpc' = [tpc EXCEPT ![i] = "backupFile"]
              /\ UNCHANGED <<sema, bhErrors>>
    /\ UNCHANGED <<mysqld, params, bpc, saved, ctxCancelled, calls, bret,
                   fes, manifest, hvars, fvars, vvars>>

\* (mutation: a task that got its slot does not look at the context)
taskCheckTrustsAcquire(i) ==
    /\ tpc[i] = "check"
    /\ IF HasErrors
         THEN /\ tpc' = [tpc EXCEPT ![i] = "done"]
              /\ sema' = sema - 1
              /\ UNCHANGED bhErrors
         ELSE /\ tpc' = [tpc EXCEPT ![i] = "backupFile"]
              /\ UNCHANGED <<sema, bhErrors>>
    /\ UNCHANGED <<mysqld, params, bpc, saved, ctxCancelled, calls, bret,
                   fes, manifest, hvars, fvars, vvars>>

\* (mutation: the task goes on whatever is recorded on the handle)
taskCheckIgnoresErrors(i) ==
    /\ tpc[i] = "check"
    /\ IF ctxCancelled
         THEN /\ bhErrors' = RecordError(bhErrors, "context canceled")
              /\ tpc' = [tpc EXCEPT ![i] = "done"]
              /\ sema' = sema - 1
         ELSE /\ tpc' = [tpc EXCEPT ![i] = "backupFile"]
              /\ UNCHANGED <<sema, bhErrors>>
    /\ UNCHANGED <<mysqld, params, bpc, saved, ctxCancelled, calls, bret,
                   fes, manifest, hvars, fvars, vvars>>

\* the explicit ctx.Done() check, then bh.HasErrors()
taskCheck(i) ==
    /\ tpc[i] = "check"
    /\ IF ctxCancelled
         THEN /\ bhErrors' = RecordError(bhErrors, "context canceled")
              /\ tpc' = [tpc EXCEPT ![i] = "done"]
              /\ sema' = sema - 1
         ELSE IF HasErrors
         THEN /\ tpc' = [tpc EXCEPT ![i] = "done"]
              /\ sema' = sema - 1
              /\ UNCHANGED bhErrors
         ELSE /\ tpc' = [tpc EXCEPT ![i] = "backupFile"]
              /\ UNCHANGED <<sema, bhErrors>>
    /\ UNCHANGED <<mysqld, params, bpc, saved, ctxCancelled, calls, bret,
                   fes, manifest, hvars, fvars, vvars>>

\* backupFile up to bh.AddFile: open the source, Stat, open the destination
backupFileOpen(i, openOk, statOk, addOk) ==
    /\ tpc[i] = "backupFile"
    /\ IF openOk /\ statOk /\ addOk
         THEN /\ fes' = [fes EXCEPT ![i].stored = "partial"]
              /\ tpc' = [tpc EXCEPT ![i] = "copy"]
              /\ UNCHANGED <<sema, bhErrors>>
         ELSE /\ bhErrors' = RecordError(bhErrors,
                     IF ~openOk THEN "cannot open source file"
                     ELSE IF ~statOk THEN "Stat" ELSE "cannot add file")
              /\ tpc' = [tpc EXCEPT ![i] = "done"]
              /\ sema' = sema - 1
              /\ UNCHANGED fes
    /\ UNCHANGED <<mysqld, params, bpc, saved, ctxCancelled, calls, bret,
                   manifest, hvars, fvars, vvars>>

\* how the rest of backupFile ends: "" is a nil error
CopyResults == {"", "can't create compressor", "cannot copy data",
                "cannot close compressor", "cannot flush destination",
                "failed to close file"}

\* the rest of backupFile: compressor, io.Copy, the closes, fe.Hash; the
\* deferred dest.Close gives the result when nothing failed before it
backupFileCopy(i, res, closeOk) ==
    /\ tpc[i] = "copy"
    /\ res \in CopyResults
    /\ res = "" => closeOk
    /\ res = "failed to close file" => ~closeOk
    /\ LET err == IF res = "failed to close file" THEN "" ELSE res
           finalErr == deferredClose(err, closeOk, "failed to close file") IN
       /\ fes' = [fes EXCEPT
                     ![i].stored = IF err = "" /\ closeOk /\ ~fes[i].broken
                                     THEN "complete" ELSE "partial",
                     ![i].hash = err = ""]
       /\ bhErrors' = RecordError(bhErrors, finalErr)
    /\ tpc' = [tpc EXCEPT ![i] = "done"]
    /\ sema' = sema - 1
    /\ UNCHANGED <<mysqld, params, bpc, saved, ctxCancelled, calls, bret,
                   manifest, hvars, fvars, vvars>>

\* the storage fails behind the writer returned by bh.AddFile and records
\* the error on the backup handle itself; backupFile never sees it
asyncStorageError(i) ==
    /\ tpc[i] = "copy"
    /\ ~fes[i].broken
    /\ fes' = [fes EXCEPT ![i].broken = TRUE]
    /\ bhErrors' = RecordError(bhErrors, "storage")
    /\ UNCHANGED <<mysqld, params, bpc, saved, ctxCancelled, calls, bret,
                   tpc, sema, manifest, hvars, fvars, vvars>>

\* (mutation: the MANIFEST is made whatever the tasks recorded)
backupFilesWaitThenManifest ==
    /\ bpc = "wg.Wait"
    /\ \A i \in Files : tpc[i] = "done"
    /\ Continue("MANIFEST", mysqld, calls) /\ UNCHANGED saved
    /\ UNCHANGED <<params, ctxCancelled, taskVars, hvars, fvars, vvars>>

\* wg.Wait() returns; bh.HasErrors() decides whether there is a MANIFEST
backupFilesWait ==
    /\ bpc = "wg.Wait"
    /\ \A i \in Files : tpc[i] = "done"
    /\ IF HasErrors
         THEN backupFilesReturn("bh.Error", calls)
         ELSE Continue("MANIFEST", mysqld, calls) /\ UNCHANGED saved
    /\ UNCHANGED <<params, ctxCancelled, taskVars, hvars, fvars, vvars>>

\* bh.AddFile(ctx, backupManifestFileName, ...)
manifestAddFile(ok) ==
    /\ bpc = "MANIFEST"
    /\ IF ok
         THEN /\ manifest' = [manifest EXCEPT !.opened = TRUE]
              /\ Continue("MANIFEST.Write", mysqld, calls)
              /\ UNCHANGED saved
         ELSE /\ backupFilesReturn("cannot add MANIFEST to backup", calls)
              /\ UNCHANGED manifest
    /\ UNCHANGED <<params, ctxCancelled, fes, tpc, sema, bhErrors, hvars, fvars, vvars>>

\* (mutation: the flag tells whether the from-position has any GTID)
IncrementalIfNotEmpty(fromPosition) == fromPosition.gtids # {}

\* Incremental: !fromPosition.IsZero()
Incremental(fromPosition) == ~IsZero(fromPosition)

\* json.MarshalIndent, wc.Write and the deferred wc.Close, whose error is
\* the result only when nothing failed before it
manifestWrite(marshalOk, writeOk, closeOk) ==
    /\ bpc = "MANIFEST.Write"
    /\ LET err == IF ~marshalOk THEN "cannot JSON encode MANIFEST"
                  ELSE IF ~writeOk THEN "cannot write MANIFEST"
                  ELSE ""
           finalErr == deferredClose(err, closeOk, "Close") IN
       /\ manifest' =
              IF marshalOk /\ writeOk
                THEN [manifest EXCEPT
                        !.written = TRUE,
                        !.closed = closeOk,
                        !.closeErr = ~closeOk,
                        !.entries = Files,
                        !.Position = saved.position,
                        !.FromPosition = saved.fromPosition,
                        !.Incremental = Incremental(saved.fromPosition)]
                ELSE [manifest EXCEPT !.closed = closeOk,
                                      !.closeErr = ~closeOk]
       /\ backupFilesReturn(finalErr, calls)
    /\ UNCHANGED <<params, ctxCancelled, fes, tpc, sema, bhErrors, hvars, fvars, vvars>>

(***************************************************************************)
(* executeFullBackup after the copy: restart and restore the settings.     *)
(***************************************************************************)
\* the restart under the caller's ctx
StartContextOfCaller == "ctx"

\* Mysqld.Start(context.Background(), params.Cnf)
StartContext == "background"

\* return usable, backupErr
Finish(m, cs) == Return(saved.usable, saved.backupErr, m, cs)

\* a restarted server takes super_read_only and semi-sync from its
\* configuration, and a call with a done context fails
fullStart(ok, sro, semi) ==
    /\ bpc = "Start"
    /\ Done(StartContext) => ~ok
    /\ LET cs == Call(calls, "Start", ok, StartContext) IN
       IF ok THEN Continue("SetSuperReadOnly",
                           [mysqld EXCEPT !.running = TRUE,
                                          !.superReadOnly = sro,
                                          !.semiSyncSource = semi[1],
                                          !.semiSyncReplica = semi[2]], cs)
             ELSE Return(saved.usable, "can't restart mysqld", mysqld, cs)
    /\ UNCHANGED <<params, saved, ctxCancelled, taskVars, hvars, fvars, vvars>>

\* (mutation: super_read_only is switched on, whatever it was)
fullResetSuperReadOnlyOn(ok) ==
    /\ bpc = "SetSuperReadOnly"
    /\ LET cs == Call(calls, "SetSuperReadOnly", ok, "none")
           m == [mysqld EXCEPT !.superReadOnly = TRUE] IN
       IF ~ok
         THEN Return(saved.usable, "SetSuperReadOnly", mysqld, cs)
         ELSE IF saved.semiSyncSource \/ saved.semiSyncReplica
         THEN Continue("SetSemiSyncEnabled", m, cs)
         ELSE IF saved.replicaStartRequired
         THEN Continue("StartReplication", m, cs)
         ELSE Finish(m, cs)
    /\ UNCHANGED <<params, saved, ctxCancelled, taskVars, hvars, fvars, vvars>>

\* Mysqld.SetSuperReadOnly(superReadOnly), then on to the semi-sync flags
fullResetSuperReadOnly(ok) ==
    /\ bpc = "SetSuperReadOnly"
    /\ LET cs == Call(calls, "SetSuperReadOnly", ok, "none")
           m == [mysqld EXCEPT !.superReadOnly = saved.superReadOnly] IN
       IF ~ok
         THEN Return(saved.usable, "SetSuperReadOnly", mysqld, cs)
         ELSE IF saved.semiSyncSource \/ saved.semiSyncReplica
         THEN Continue("SetSemiSyncEnabled", m, cs)
         ELSE IF saved.replicaStartRequired
         THEN Continue("StartReplication", m, cs)
         ELSE Finish(m, cs)
    /\ UNCHANGED <<params, saved, ctxCancelled, taskVars, hvars, fvars, vvars>>

fullSetSemiSyncEnabled(ok) ==
    /\ bpc = "SetSemiSyncEnabled"
    /\ LET cs == Call(calls, "SetSemiSyncEnabled", ok, "none")
           m == [mysqld EXCEPT !.semiSyncSource = saved.semiSyncSource,
                               !.semiSyncReplica = saved.semiSyncReplica] IN
       IF ~ok
         THEN Return(saved.usable, "SetSemiSyncEnabled", mysqld, cs)
         ELSE IF saved.replicaStartRequired
         THEN Continue("StartReplication", m, cs)
         ELSE Finish(m, cs)
    /\ UNCHANGED <<params, saved, ctxCancelled, taskVars, hvars, fvars, vvars>>

fullStartReplication(ok) ==
    /\ bpc = "StartReplication"
    /\ LET cs == Call(calls, "StartReplication", ok, "none") IN
       IF ok THEN Continue("WaitForReplicationStart",
                           [mysqld EXCEPT !.replicating = TRUE], cs)
             ELSE Return(saved.usable, "cannot restart replica", mysqld, cs)
    /\ UNCHANGED <<params, saved, ctxCancelled, taskVars, hvars, fvars, vvars>>

\* WaitForReplicationStart, then getPrimaryPosition under remoteCtx; the
\* wait loop is entered when the primary's position differs from the saved
fullWaitForReplicationStart(ok, posOk, equal) ==
    /\ bpc = "WaitForReplicationStart"
    /\ LET cs1 == Call(calls, "WaitForReplicationStart", ok, "none")
           cs2 == Call(cs1, "getPrimaryPosition", posOk, "remoteCtx") IN
       IF ~ok
         THEN Return(saved.usable, "replica is not restarting", mysqld, cs1)
         ELSE IF ~posOk
         THEN Return(saved.usable, "getPrimaryPosition", mysqld, cs2)
         ELSE IF equal THEN Finish(mysqld, cs2)
         ELSE Continue("wait", mysqld, cs2)
    /\ UNCHANGED <<params, saved, ctxCancelled, taskVars, hvars, fvars, vvars>>

\* topo.RemoteOperationTimeout passes: remoteCtx, made by
\* context.WithTimeout before getPrimaryPosition, is done
remoteCtxTimeout ==
    /\ bpc = "wait"
    /\ ~saved.remoteCtxDone
    /\ saved' = [saved EXCEPT !.remoteCtxDone = TRUE]
    /\ UNCHANGED <<mysqld, params, bpc, ctxCancelled, calls, bret, taskVars,
                   hvars, fvars, vvars>>

WaitResults == {"ctx.Err", "err", "changed", "sleep"}

\* one round of the loop: ctx.Err(), ReplicationStatus, compare, Sleep
fullWait(res) ==
    /\ bpc = "wait"
    /\ res \in WaitResults
    /\ (res = "ctx.Err") <=> ctxCancelled
    /\ LET cs == Call(calls, "ReplicationStatus", res # "err", "none") IN
       CASE res = "ctx.Err" ->
              Return(saved.usable, "ctx.Err", mysqld, calls) /\ UNCHANGED saved
         [] res = "err" ->
              Return(saved.usable, "ReplicationStatus", mysqld, cs)
              /\ UNCHANGED saved
         [] res = "changed" -> Finish(mysqld, cs) /\ UNCHANGED saved
         [] OTHER ->
              /\ saved.polls < MaxPolls
              /\ saved' = [saved EXCEPT !.polls = @ + 1]
              /\ Continue("wait", mysqld, cs)
    /\ UNCHANGED <<params, ctxCancelled, taskVars, hvars, fvars, vvars>>

(***************************************************************************)
(* executeIncrementalBackup up to backupFiles.                             *)
(***************************************************************************)
\* mysql.DecodePosition and Position.MatchesFlavor(Mysql56FlavorID)
DecodePosition(p) == IF p \in {"MySQL56/uuid:1", "MariaDB/0-1-10"}
                       THEN p ELSE "err"

MatchesFlavor(p) == p = "MySQL56/uuid:1"

\* the vtrpc code of an error of executeIncrementalBackup: the two checks
\* of the GTID flavor set Code_FAILED_PRECONDITION; Wrapf of the error of
\* mysql.DecodePosition keeps the code of that parse error; a wrapped plain
\* error has Code_UNKNOWN
Code(err) ==
    CASE err \in {"cannot get MySQL GTID purged value",
                  "incremental backup only supports MySQL GTID positions"}
             -> "FAILED_PRECONDITION"
      [] err = "cannot decode position" -> "INTERNAL"
      [] err = "" -> "OK"
      [] OTHER -> "UNKNOWN"

\* GetServerUUID, then @@gtid_purged as a MySQL56 GTID set
incServerUUID(ok, purged) ==
    /\ bpc = "inc.GetServerUUID"
    /\ purged \in {"ok", "err", "notMysql56"}
    /\ LET cs1 == Call(calls, "GetServerUUID", ok, "ctx")
           cs2 == Call(cs1, "GetGTIDPurged", purged # "err", "ctx") IN
       IF ~ok THEN Return(FALSE, "can't get server uuid", mysqld, cs1)
       ELSE IF purged = "err"
         THEN Return(FALSE, "can't get @@gtid_purged", mysqld, cs2)
       ELSE IF purged = "notMysql56"
         THEN Return(FALSE, "cannot get MySQL GTID purged value", mysqld,
                     cs2)
       ELSE Continue("inc.from", mysqld, cs2)
    /\ UNCHANGED <<params, saved, ctxCancelled, taskVars, hvars, fvars, vvars>>

\* "auto" is replaced by the position of the latest successful backup
incAuto(ok, pos) ==
    /\ bpc = "inc.from"
    /\ params.fromPos = autoIncrementalFromPos
    /\ pos \in {"MySQL56/uuid:1", "MariaDB/0-1-10"}
    /\ IF ok
         THEN /\ params' = [params EXCEPT !.fromPos = pos]
              /\ UNCHANGED <<mysqld, bpc, calls, bret>>
         ELSE /\ Return(FALSE, "FindLatestSuccessfulBackup failed", mysqld,
                        calls)
              /\ UNCHANGED params
    /\ UNCHANGED <<saved, ctxCancelled, taskVars, hvars, fvars, vvars>>

\* (mutation: the flavor of the decoded position is not checked)
incFromPosAnyFlavor ==
    /\ bpc = "inc.from"
    /\ params.fromPos # autoIncrementalFromPos
    /\ IF DecodePosition(params.fromPos) = "err"
         THEN Return(FALSE, "cannot decode position", mysqld, calls)
         ELSE Continue("inc.FlushBinaryLogs", mysqld, calls)
    /\ UNCHANGED <<params, saved, ctxCancelled, taskVars, hvars, fvars, vvars>>

\* getIncrementalFromPosGTIDSet
incFromPos ==
    /\ bpc = "inc.from"
    /\ params.fromPos # autoIncrementalFromPos
    /\ IF DecodePosition(params.fromPos) = "err"
         THEN Return(FALSE, "cannot decode position", mysqld, calls)
         ELSE IF ~MatchesFlavor(DecodePosition(params.fromPos))
         THEN Return(FALSE, "incremental backup only supports MySQL GTID positions",
                     mysqld, calls)
         ELSE Continue("inc.FlushBinaryLogs", mysqld, calls)
    /\ UNCHANGED <<params, saved, ctxCancelled, taskVars, hvars, fvars, vvars>>

\* the GTID set of a decoded MySQL56 position
Mysql56GTIDSet(p) == IF p = "MySQL56/uuid:1" THEN {1} ELSE {}

\* what GetBinaryLogs and GetPreviousGTIDs report: the previous-GTIDs of
\* each binary log file, oldest first; a later file has seen all that an
\* earlier one has
BinaryLogs ==
    {bl \in UNION {[1..n -> SUBSET GTIDs] : n \in 1..MaxBinlogs} :
        \A i \in 1..(Len(bl) - 1) : bl[i] \subseteq bl[i + 1]}

\* the files F with previous-GTIDs(F) \ purged within the from-position
Covering(from, purged, bl) ==
    {i \in 1..Len(bl) : (bl[i] \ purged) \subseteq from}

\* ChooseBinlogsForIncrementalBackup: the files from the earliest covering
\* file on, the previous-GTIDs of that file, and the position of the server
\* when the logs were flushed (the previous-GTIDs of the newest file)
ChooseBinlogsForIncrementalBackup(from, purged, bl) ==
    IF Covering(from, purged, bl) = {} THEN [ok |-> FALSE]
    ELSE LET F == CHOOSE i \in Covering(from, purged, bl) :
                      \A j \in Covering(from, purged, bl) : i <= j IN
         [ok |-> TRUE, first |-> F, fromGTID |-> bl[F],
          toGTID |-> bl[Len(bl)]]

\* (mutation: the two positions are passed in each other's place)
backupFilesArgsSwapped(to, from) == [position |-> from, fromPosition |-> to]

\* be.backupFiles(ctx, params, bh, incrementalBackupToPosition,
\* mysql.Position{}, incrementalBackupFromPosition, ...)
backupFilesArgs(to, from) == [position |-> to, fromPosition |-> from]

\* FlushBinaryLogs, GetBinaryLogs, ChooseBinlogsForIncrementalBackup and
\* the two ParsePosition
incBinaryLogs(flushOk, logsOk, chooseOk, bl, purged) ==
    /\ bpc = "inc.FlushBinaryLogs"
    /\ (flushOk /\ logsOk /\ chooseOk) \/ (bl = <<{}>> /\ purged = {})
    /\ LET cs1 == Call(calls, "FlushBinaryLogs", flushOk, "ctx")
           cs2 == Call(cs1, "GetBinaryLogs", logsOk, "ctx")
           chosen == ChooseBinlogsForIncrementalBackup(
                         Mysql56GTIDSet(DecodePosition(params.fromPos)),
                         purged, bl)
           args == backupFilesArgs(ParsePosition("MySQL56", chosen.toGTID),
                                   ParsePosition("MySQL56", chosen.fromGTID))
       IN
       IF ~flushOk
         THEN /\ Return(FALSE, "cannot flush binary logs", mysqld, cs1)
              /\ UNCHANGED saved
       ELSE IF ~logsOk
         THEN /\ Return(FALSE, "cannot get binary logs", mysqld, cs2)
              /\ UNCHANGED saved
       ELSE IF ~chooseOk \/ ~chosen.ok
         THEN /\ Return(FALSE, "cannot get binary logs to backup", mysqld,
                        cs2)
              /\ UNCHANGED saved
       ELSE /\ Continue("backupFiles", mysqld, cs2)
            /\ saved' = [saved EXCEPT
                            !.incrementalBackupFromGTID = chosen.fromGTID,
                            !.incrementalBackupToGTID = chosen.toGTID,
                            !.position = args.position,
                            !.fromPosition = args.fromPosition]
    /\ UNCHANGED <<params, ctxCancelled, taskVars, hvars, fvars, vvars>>

BackupNext ==
    \/ CancelCtx
    \/ ExecuteBackup
    \/ \E res \in {"nil", "ErrNotReplica", "err"} : fullReplicationStatus(res)
    \/ \E okRO \in BOOLEAN, okSRO \in BOOLEAN : fullReadOnly(okRO, okSRO)
    \/ \E ok \in BOOLEAN : fullSetSuperReadOnly(ok)
    \/ \E ok \in BOOLEAN : fullPrimaryPosition(ok)
    \/ \E ok \in BOOLEAN : fullStopReplication(ok)
    \/ \E ok \in BOOLEAN : fullReplicaPosition(ok)
    \/ \E ok \in BOOLEAN : fullGTIDPurged(ok)
    \/ \E ok \in BOOLEAN : fullServerUUID(ok)
    \/ \E ok \in BOOLEAN : fullShutdown(ok)
    \/ \E ok \in BOOLEAN : backupFilesFind(ok)
    \/ \E i \in Files, ok \in BOOLEAN : taskAcquire(i, ok)
    \/ \E i \in Files : taskCheck(i)
    \/ \E i \in Files, openOk \in BOOLEAN, statOk \in BOOLEAN,
          addOk \in BOOLEAN : backupFileOpen(i, openOk, statOk, addOk)
    \/ \E i \in Files, res \in CopyResults, closeOk \in BOOLEAN :
          backupFileCopy(i, res, closeOk)
    \/ \E i \in Files : asyncStorageError(i)
    \/ backupFilesWait
    \/ \E ok \in BOOLEAN : manifestAddFile(ok)
    \/ \E marshalOk \in BOOLEAN, writeOk \in BOOLEAN, closeOk \in BOOLEAN :
          manifestWrite(marshalOk, writeOk, closeOk)
    \/ \E ok \in BOOLEAN, sro \in BOOLEAN, semi \in SemiSyncSettings :
          fullStart(ok, sro, semi)
    \/ \E ok \in BOOLEAN : fullResetSuperReadOnly(ok)
    \/ \E ok \in BOOLEAN : fullSetSemiSyncEnabled(ok)
    \/ \E ok \in BOOLEAN : fullStartReplication(ok)
    \/ \E ok \in BOOLEAN, posOk \in BOOLEAN, equal \in BOOLEAN :
          fullWaitForReplicationStart(ok, posOk, equal)
    \/ remoteCtxTimeout
    \/ \E res \in WaitResults : fullWait(res)
    \/ \E ok \in BOOLEAN, purged \in {"ok", "err", "notMysql56"} :
          incServerUUID(ok, purged)
    \/ \E ok \in BOOLEAN, pos \in FromPositions : incAuto(ok, pos)
    \/ incFromPos
    \/ /\ bpc = "inc.FlushBinaryLogs"
       /\ \E flushOk \in BOOLEAN, logsOk \in BOOLEAN, chooseOk \in BOOLEAN,
             bl \in BinaryLogs, purged \in SUBSET GTIDs :
             incBinaryLogs(flushOk, logsOk, chooseOk, bl, purged)

InitBackup ==
    /\ HealthInit
    /\ BackupInit
    /\ FileIdle
    /\ VStreamIdle

SpecBackup == InitBackup /\ [][BackupNext]_vars

(***************************************************************************)
(* Properties of the backup engine.                                        *)
(***************************************************************************)
\* the calls of one operation made on params.Mysqld so far
CallsOf(op) == {k \in 1..Len(calls) : calls[k].op = op}

ShutdownSucceeded == \E k \in CallsOf("Shutdown") : calls[k].ok

FullReturned == bret.returned /\ ~isIncrementalBackup

AllStored == \A i \in Files : fes[i].stored = "complete" /\ fes[i].hash

\* C2: the MANIFEST sink is opened only after every per-file task has
\* finished and only with no error recorded on the backup handle; an
\* opened (hence a written) MANIFEST never goes with a file that is not
\* completely stored.
C2_ManifestAfterFiles ==
    manifest.opened =>
        /\ \A i \in Files : tpc[i] = "done"
        /\ bhErrors = {}
        /\ AllStored

\* A MANIFEST was written and closed after copies that ran concurrently
\* with a task that waited for the semaphore.
C2_Witness ==
    /\ manifest.written
    /\ manifest.closed
    /\ AllStored
    /\ bret.returned

\* C7: the boolean returned by ExecuteBackup, full or incremental, is true
\* exactly when every file is completely stored and the MANIFEST was
\* written and closed without error, whatever the steps after the copy did.
C7_UsableIffStored ==
    bret.returned =>
        (bret.usable <=> AllStored /\ manifest.written /\ manifest.closed)

\* A full backup returned usable although the restart of MySQL failed.
C7_Witness ==
    /\ FullReturned
    /\ bret.usable
    /\ bret.err = "can't restart mysqld"

\* C8: when the file copy of a full backup failed, the restart of MySQL was
\* attempted all the same and the error returned is the file-copy error,
\* also when a later step failed as well.
C8_FirstFailureReported ==
    FullReturned /\ saved.backupErr # "" =>
        /\ CallsOf("Start") # {}
        /\ bret.err = saved.backupErr

(***************************************************************************)
(* The per-file pipeline: backupFile and restoreFile over bytes.           *)
(* Bytes are numbers in 0..255; a file or a stored object is a sequence of *)
(* bytes; NoFile is the absence of one.                                    *)
(***************************************************************************)
Bytes == {0, 97}

\* neither is a sequence of bytes
NoFile == <<-1>>
DecodeError == <<-2>>

RECURSIVE SeqsUpTo(_)
SeqsUpTo(n) ==
    IF n = 0 THEN {<<>>}
    ELSE SeqsUpTo(n - 1) \cup
         {Append(s, b) : s \in {t \in SeqsUpTo(n - 1) : Len(t) = n - 1},
                         b \in Bytes}

Contents == SeqsUpTo(MaxLen)

\* ---- crc32.NewIEEE(): a checksum is the set of its one bits (bit 0 is
\* ---- the least significant of 32)
IEEE == {5, 8, 9, 15, 19, 20, 21, 23, 24, 26, 27, 29, 30, 31}

Xor(a, b) == {i \in 0..31 : (i \in a) # (i \in b)}

ShiftRight(a) == {i \in 0..30 : i + 1 \in a}

RECURSIVE Pow2(_)
Pow2(n) == IF n = 0 THEN 1 ELSE 2 * Pow2(n - 1)

ByteBits(b) == {i \in 0..7 : (b \div Pow2(i)) % 2 = 1}

\* one round of the shift register
Round(c) == IF 0 \in c THEN Xor(ShiftRight(c), IEEE) ELSE ShiftRight(c)

\* the register after the eight rounds of byte b
crc32Byte(c, b) ==
    Round(Round(Round(Round(Round(Round(Round(Round(Xor(c, ByteBits(b))))))))))

\* the register of the checksum after the first n bytes of p
RECURSIVE crc32Update(_, _)
crc32Update(p, n) ==
    IF n = 0 THEN 0..31 ELSE crc32Byte(crc32Update(p, n - 1), p[n])

\* crc32.Sum over everything that passed through the pipe
crc32Sum(p) ==
    LET c == crc32Update(p, Len(p)) IN {i \in 0..31 : i \notin c}

HexDigits == <<"0", "1", "2", "3", "4", "5", "6", "7",
               "8", "9", "a", "b", "c", "d", "e", "f">>

Nibble(c, k) ==
    (IF 4 * k \in c THEN 1 ELSE 0) + (IF 4 * k + 1 \in c THEN 2 ELSE 0)
    + (IF 4 * k + 2 \in c THEN 4 ELSE 0) + (IF 4 * k + 3 \in c THEN 8 ELSE 0)

\* backupPipe.HashString: hex.EncodeToString of the big-endian sum
HashString(p) ==
    LET sum == crc32Sum(p) IN
    [d \in 1..8 |-> HexDigits[Nibble(sum, 8 - d) + 1]]

\* ---- the compression layer: an engine or an external command writes its
\* ---- own format, a magic byte followed by the runs of the data
PargzipCompressor == "pargzip"
PgzipCompressor == "pgzip"
ExternalCompressor == "external"
Engines == {PargzipCompressor, PgzipCompressor, "lz4", "zstd",
            ExternalCompressor}
ExternalCompressorCmds == {"", "zstd -c"}
ExternalDecompressorCmds == {"", "zstd -d", "lz4 -d"}

\* the format a built-in engine or an external command reads and writes
Format(name) ==
    CASE name \in {PargzipCompressor, PgzipCompressor} -> "gzip"
      [] name \in {"lz4", "lz4 -d"} -> "lz4"
      [] name \in {"zstd", "zstd -c", "zstd -d"} -> "zstd"
      [] OTHER -> "unsupported"

Magic(format) ==
    CASE format = "gzip" -> 31
      [] format = "lz4" -> 4
      [] format = "zstd" -> 40
      [] OTHER -> 255

\* the length of the run of equal bytes at the head of a non-empty p
RECURSIVE RunLen(_)
RunLen(p) ==
    IF Len(p) >= 2 /\ p[2] = p[1] THEN 1 + RunLen(Tail(p)) ELSE 1

RECURSIVE Runs(_)
Runs(p) ==
    IF p = <<>> THEN <<>>
    ELSE <<RunLen(p), p[1]>> \o Runs(SubSeq(p, RunLen(p) + 1, Len(p)))

Compress(format, p) == <<Magic(format)>> \o Runs(p)

\* the bytes of the runs of a compressed body, DecodeError when malformed
RECURSIVE Expand(_)
Expand(q) ==
    IF q = <<>> THEN <<>>
    ELSE IF Len(q) = 1 \/ q[1] = 0 THEN DecodeError
    ELSE LET rest == Expand(SubSeq(q, 3, Len(q))) IN
         IF rest = DecodeError THEN DecodeError
         ELSE [k \in 1..q[1] |-> q[2]] \o rest

Decompress(format, q) ==
    IF q = <<>> \/ q[1] # Magic(format) THEN DecodeError
    ELSE Expand(Tail(q))

(***************************************************************************)
(* backupFile and restoreFile.                                             *)
(***************************************************************************)
NoHash == <<>>

\* the compressor of backupFile: none, or the format it writes
BackupCompressor(f) ==
    IF ~f.backupStorageCompress THEN "none"
    ELSE IF f.ExternalCompressorCmd # "" THEN Format(f.ExternalCompressorCmd)
    ELSE IF f.CompressionEngineName = ExternalCompressor THEN "unsupported"
    ELSE Format(f.CompressionEngineName)

\* the bytes backupFile hands to the storage for a file of bytes plain
StoredBytes(f, plain) ==
    IF BackupCompressor(f) = "none" THEN plain
    ELSE Compress(BackupCompressor(f), plain)

\* a hash of the bytes read from the source
hashOfPlaintext(plain, stored) == plain

\* bw wraps dest and the compressor writes into bw: the hash is taken over
\* the bytes written to the storage
hashedBytes(plain, stored) == stored

BackupFaults == {"", "cannot open source file", "Stat", "cannot add file",
                 "can't create compressor", "cannot copy data",
                 "cannot close compressor", "cannot flush destination",
                 "failed to close file"}

\* backupFile of entry i under the name i
backupFile(i, fault, closeOk) ==
    /\ fileData[i] # NoFile
    /\ bres[i] = "pending"
    /\ fault \in BackupFaults
    /\ fault = "" => closeOk
    /\ fault = "failed to close file" => ~closeOk
    /\ LET stored == StoredBytes(flags, fileData[i])
           step == IF fault \in {"cannot open source file", "Stat",
                                 "cannot add file"} THEN fault
                   ELSE IF flags.backupStorageCompress
                           /\ BackupCompressor(flags) = "unsupported"
                     THEN "can't create compressor"
                   ELSE IF fault = "failed to close file" THEN ""
                   ELSE fault
           \* dest.Close is deferred once bh.AddFile has succeeded
           err == IF step \in {"cannot open source file", "Stat",
                               "cannot add file"} THEN step
                  ELSE deferredClose(step, closeOk, "failed to close file") IN
       /\ bres' = [bres EXCEPT ![i] = err]
       /\ storage' = [storage EXCEPT ![i] =
              IF step \in {"cannot open source file", "Stat", "cannot add file"}
                THEN NoFile
              ELSE IF step = "can't create compressor" THEN <<>>
              ELSE IF step = "" THEN stored
              ELSE SubSeq(stored, 1, Len(stored) - 1)]
       /\ feHash' = [feHash EXCEPT ![i] =
              IF step = ""
                THEN HashString(hashedBytes(fileData[i], stored))
                ELSE NoHash]
    /\ UNCHANGED <<flags, fileData, bm, disk, rres, rpc, rret, stateFile,
                   rctxDone, rtpc, rsema, rec, applied, createdDir,
                   corrupted, hvars, bvars, vvars>>

\* the builtinBackupManifest written by backupFiles
builtinBackupManifest(f, hashes) ==
    [present |-> TRUE,
     Incremental |-> f.incremental,
     FileEntries |-> hashes,
     SkipCompress |-> ~f.backupStorageCompress,
     CompressionEngine |-> f.CompressionEngineName,
     ExternalDecompressor |-> f.ManifestExternalDecompressorCmd]

\* restoreFiles hands pgzip to restoreFile in place of pargzip
restoreFilesManifest(m) ==
    IF m.CompressionEngine = PargzipCompressor
      THEN [m EXCEPT !.CompressionEngine = PgzipCompressor]
      ELSE m

\* a restoreFile that takes the command of the manifest before the
\* restore-time flag
DecompressorManifestFirst(m, ExternalDecompressorCmd) ==
    IF m.SkipCompress THEN [kind |-> "none", name |-> ""]
    ELSE LET deCompressionEngine ==
                 IF m.CompressionEngine = "" THEN PgzipCompressor
                 ELSE m.CompressionEngine
             externalDecompressorCmd ==
                 IF m.ExternalDecompressor # ""
                   THEN m.ExternalDecompressor
                   ELSE ExternalDecompressorCmd IN
         IF externalDecompressorCmd # ""
           THEN IF deCompressionEngine = ExternalCompressor
                  THEN [kind |-> "external", name |-> externalDecompressorCmd]
                  ELSE [kind |-> "builtin", name |-> deCompressionEngine]
           ELSE IF deCompressionEngine = ExternalCompressor
                  THEN [kind |-> "unsupported", name |-> ExternalCompressor]
                  ELSE [kind |-> "builtin", name |-> deCompressionEngine]

\* the decompressor restoreFile sets up for manifest m under the
\* restore-time flag --external-decompressor
Decompressor(m, ExternalDecompressorCmd) ==
    IF m.SkipCompress THEN [kind |-> "none", name |-> ""]
    ELSE LET deCompressionEngine ==
                 IF m.CompressionEngine = "" THEN PgzipCompressor
                 ELSE m.CompressionEngine
             externalDecompressorCmd ==
                 IF ExternalDecompressorCmd = "" /\ m.ExternalDecompressor # ""
                   THEN m.ExternalDecompressor
                   ELSE ExternalDecompressorCmd IN
         IF externalDecompressorCmd # ""
           THEN IF deCompressionEngine = ExternalCompressor
                  THEN [kind |-> "external", name |-> externalDecompressorCmd]
                  ELSE [kind |-> "builtin", name |-> deCompressionEngine]
           ELSE IF deCompressionEngine = ExternalCompressor
                  THEN [kind |-> "unsupported", name |-> ExternalCompressor]
                  ELSE [kind |-> "builtin", name |-> deCompressionEngine]

RestoreFaults == {"", "can't open source file for reading",
                  "can't open destination file for writing",
                  "can't create decompressor", "failed to copy file contents",
                  "failed to flush destination buffer",
                  "failed to close decompressor",
                  "failed to close destination file"}

\* never a mismatch
sameHash(hash, feHashI) == FALSE

\* hash != fe.Hash
hashMismatch(hash, feHashI) == hash # feHashI

NoDisk == [exists |-> FALSE, data |-> <<>>, flushed |-> FALSE]

\* what restoreFile of entry i does under a fault of its environment: the
\* error it returns, the hash it computed and the file it leaves
restoreFileResult(i, fault) ==
    LET m == restoreFilesManifest(bm)
        dec == Decompressor(m, flags.ExternalDecompressorCmd)
        stored == storage[i]
        plain == IF dec.kind = "none" THEN stored
                 ELSE Decompress(Format(dec.name), stored)
        hash == HashString(stored)
        created == [exists |-> TRUE, data |-> <<>>, flushed |-> FALSE] IN
    IF stored = NoFile \/ fault = "can't open source file for reading"
      THEN [err |-> "can't open source file for reading", hash |-> NoHash,
            disk |-> disk[i]]
    ELSE IF fault = "can't open destination file for writing"
      THEN [err |-> fault, hash |-> NoHash, disk |-> disk[i]]
    ELSE IF dec.kind = "unsupported"
      THEN [err |-> "unsupported engine", hash |-> NoHash, disk |-> created]
    ELSE IF fault = "can't create decompressor"
            \/ (dec.kind # "none" /\ Format(dec.name) = "unsupported")
      THEN [err |-> "can't create decompressor", hash |-> NoHash,
            disk |-> created]
    ELSE IF fault = "failed to copy file contents" \/ plain = DecodeError
      THEN [err |-> "failed to copy file contents", hash |-> NoHash,
            disk |-> created]
    ELSE IF hashMismatch(hash, m.FileEntries[i])
      THEN [err |-> "hash mismatch", hash |-> hash,
            disk |-> [created EXCEPT !.data = plain]]
    ELSE IF fault = "failed to flush destination buffer"
      THEN [err |-> fault, hash |-> hash,
            disk |-> [created EXCEPT !.data = plain]]
    ELSE IF fault = "failed to close decompressor" /\ dec.kind # "none"
      THEN [err |-> fault, hash |-> hash,
            disk |-> [created EXCEPT !.data = plain, !.flushed = TRUE]]
    ELSE IF fault = "failed to close destination file"
      THEN [err |-> fault, hash |-> hash,
            disk |-> [created EXCEPT !.data = plain, !.flushed = TRUE]]
    ELSE [err |-> "", hash |-> hash,
          disk |-> [created EXCEPT !.data = plain, !.flushed = TRUE]]

\* the goroutine of restoreFiles runs restoreFile of entry i, records its
\* error and releases the semaphore
restoreFile(i, fault, closeOk) ==
    /\ rtpc[i] = "restoreFile"
    /\ fault \in RestoreFaults
    /\ fault = "" => closeOk
    /\ fault = "failed to close destination file" => ~closeOk
    /\ LET r == restoreFileResult(i, fault)
           step == IF r.err = "failed to close destination file"
                     THEN "" ELSE r.err
           \* dest.Close is deferred once fe.open has succeeded
           err == IF step \in {"can't open source file for reading",
                               "can't open destination file for writing"}
                    THEN step
                  ELSE deferredClose(step, closeOk,
                                     "failed to close destination file") IN
       /\ disk' = [disk EXCEPT ![i] = r.disk]
       /\ rres' = [rres EXCEPT ![i] = [done |-> TRUE, err |-> err,
                                       fault |-> fault, hash |-> r.hash]]
       /\ rec' = IF err = "" THEN rec ELSE rec \cup {err}
    /\ rtpc' = [rtpc EXCEPT ![i] = "done"]
    /\ rsema' = rsema - 1
    /\ UNCHANGED <<flags, fileData, storage, feHash, bres, bm, rpc, rret,
                   stateFile, rctxDone, applied, createdDir, corrupted,
                   hvars, bvars, vvars>>

(***************************************************************************)
(* backupFile followed by restoreFile: one file entry is backed up, the    *)
(* manifest of the backup is made, and the entry is restored from it.      *)
(***************************************************************************)
FileInit ==
    /\ \E compress \in BOOLEAN, engine \in Engines,
          cmd \in ExternalCompressorCmds, dcmd \in ExternalDecompressorCmds,
          mcmd \in ExternalDecompressorCmds :
          flags = [backupStorageCompress |-> compress,
                   CompressionEngineName |-> engine,
                   ExternalCompressorCmd |-> cmd,
                   ExternalDecompressorCmd |-> dcmd,
                   ManifestExternalDecompressorCmd |-> mcmd,
                   incremental |-> FALSE, concurrency |-> 1]
    /\ \E i \in Files, content \in Contents :
          fileData = [j \in Files |-> IF j = i THEN content ELSE NoFile]
    /\ rpc = "files"
    /\ PipelineIdle

\* the manifest of the files backed up, and their restore tasks
backupThenRestore ==
    /\ rpc = "files"
    /\ ~bm.present
    /\ \A i \in Files : fileData[i] # NoFile => bres[i] = ""
    /\ bm' = builtinBackupManifest(flags, feHash)
    /\ rtpc' = [i \in Files |-> IF fileData[i] # NoFile THEN "restoreFile"
                                ELSE "idle"]
    /\ rsema' = Cardinality({i \in Files : fileData[i] # NoFile})
    /\ UNCHANGED <<flags, fileData, storage, feHash, bres, disk, rres, rpc,
                   rret, stateFile, rctxDone, rec, applied, createdDir,
                   corrupted, hvars, bvars, vvars>>

FileNext ==
    \/ \E i \in Files, fault \in BackupFaults, closeOk \in BOOLEAN :
          backupFile(i, fault, closeOk)
    \/ backupThenRestore
    \/ \E i \in Files, fault \in RestoreFaults, closeOk \in BOOLEAN :
          restoreFile(i, fault, closeOk)

InitFile ==
    /\ HealthInit
    /\ BackupIdle
    /\ FileInit
    /\ VStreamIdle

SpecFile == InitFile /\ [][FileNext]_vars

(***************************************************************************)
(* ExecuteRestore of a backup that was taken without error.                *)
(***************************************************************************)
\* the files of the backup that is restored
SampleData == [i \in Files |-> [k \in 1..MaxLen |-> IF k = 1 THEN 97 ELSE 0]]

RestoreInit ==
    /\ \E compress \in BOOLEAN, incremental \in BOOLEAN,
          n \in 1..MaxConcurrency :
          flags = [backupStorageCompress |-> compress,
                   CompressionEngineName |-> PgzipCompressor,
                   ExternalCompressorCmd |-> "",
                   ExternalDecompressorCmd |-> "",
                   ManifestExternalDecompressorCmd |-> "",
                   incremental |-> incremental, concurrency |-> n]
    /\ fileData = SampleData
    /\ storage = [i \in Files |-> StoredBytes(flags, fileData[i])]
    /\ feHash = [i \in Files |->
                    HashString(hashedBytes(fileData[i], storage[i]))]
    /\ bres = [i \in Files |-> ""]
    /\ bm = NoBackupManifest
    /\ disk = [i \in Files |-> NoDisk]
    /\ rres = [i \in Files |-> NoRestoreResult]
    /\ rpc = "ExecuteRestore"
    /\ rret = NoRestoreReturn
    /\ stateFile = FALSE
    /\ rctxDone = FALSE
    /\ rtpc = [i \in Files |-> "idle"]
    /\ rsema = 0
    /\ rec = {}
    /\ applied = <<>>
    /\ createdDir = ""
    /\ corrupted = {}

\* a byte of a stored file changes between the backup and the restore
corruptStorage(i, k, b) ==
    /\ rpc = "ExecuteRestore"
    /\ corrupted = {}
    /\ k \in 1..Len(storage[i])
    /\ b # storage[i][k]
    /\ storage' = [storage EXCEPT ![i][k] = b]
    /\ corrupted' = {i}
    /\ UNCHANGED <<flags, fileData, feHash, bres, bm, disk, rres, rpc, rret,
                   stateFile, rctxDone, rtpc, rsema, rec, applied, createdDir,
                   hvars, bvars, vvars>>

restoreCancelCtx ==
    /\ rpc \notin {"idle", "files", "returned"}
    /\ ~rctxDone
    /\ rctxDone' = TRUE
    /\ UNCHANGED <<flags, fileData, storage, feHash, bres, bm, disk, rres,
                   rpc, rret, stateFile, rtpc, rsema, rec, applied,
                   createdDir, corrupted, hvars, bvars, vvars>>

ErrKind(err) ==
    CASE err = "hash mismatch" -> "INTERNAL"
      [] err = "context canceled" -> "CANCELED"
      [] OTHER -> "UNKNOWN"

\* a return of ExecuteRestore: the manifest or an error; a returning
\* incremental restore removes the applied files and the scratch directory
restoreReturn(bmReturned, err, kinds) ==
    /\ rret' = [returned |-> TRUE, manifest |-> bmReturned, err |-> err,
                kinds |-> kinds]
    /\ rpc' = "returned"

\* getBackupManifestInto, createStateFile, then prepareToRestore of a full
\* restore or os.MkdirTemp of an incremental one; the goroutines of
\* restoreFiles are spawned
ExecuteRestore(manifestOk, stateOk, prepareOk) ==
    /\ rpc = "ExecuteRestore"
    /\ LET m == builtinBackupManifest(flags, feHash) IN
       IF ~manifestOk
         THEN /\ restoreReturn(FALSE, "can't read MANIFEST", {"UNKNOWN"})
              /\ UNCHANGED <<bm, stateFile, rtpc, createdDir>>
       ELSE IF ~stateOk
         THEN /\ restoreReturn(FALSE, "createStateFile", {"UNKNOWN"})
              /\ bm' = m
              /\ UNCHANGED <<stateFile, rtpc, createdDir>>
       ELSE IF ~prepareOk /\ ~m.Incremental
         THEN /\ restoreReturn(FALSE, "prepareToRestore", {"UNKNOWN"})
              /\ bm' = m
              /\ stateFile' = TRUE
              /\ UNCHANGED <<rtpc, createdDir>>
       ELSE IF ~prepareOk /\ m.Incremental
         THEN /\ bm' = m
              /\ stateFile' = TRUE
              /\ rec' = {"MkdirTemp"}
              /\ rpc' = "apply"
              /\ UNCHANGED <<rret, rtpc, createdDir>>
       ELSE /\ bm' = m
            /\ stateFile' = TRUE
            /\ createdDir' = IF m.Incremental THEN "created" ELSE ""
            /\ rtpc' = [i \in Files |-> "Acquire"]
            /\ rpc' = "restoreFiles"
            /\ UNCHANGED rret
    /\ ~(manifestOk /\ stateOk /\ ~prepareOk
         /\ builtinBackupManifest(flags, feHash).Incremental)
         => UNCHANGED rec
    /\ UNCHANGED <<flags, fileData, storage, feHash, bres, disk, rres,
                   rctxDone, rsema, applied, corrupted, hvars, bvars, vvars>>

restoreAcquire(i, ok) ==
    /\ rtpc[i] = "Acquire"
    /\ IF ok
         THEN /\ SlotFree(rsema, flags.concurrency)
              /\ rsema' = rsema + 1
              /\ rtpc' = [rtpc EXCEPT ![i] = "check"]
              /\ UNCHANGED rec
         ELSE /\ rctxDone
              /\ rec' = rec \cup {"acquire"}
              /\ rtpc' = [rtpc EXCEPT ![i] = "done"]
              /\ UNCHANGED rsema
    /\ UNCHANGED <<flags, fileData, storage, feHash, bres, bm, disk, rres,
                   rpc, rret, stateFile, rctxDone, applied, createdDir,
                   corrupted, hvars, bvars, vvars>>

restoreCheck(i) ==
    /\ rtpc[i] = "check"
    /\ IF rctxDone
         THEN /\ rec' = rec \cup {"context canceled"}
              /\ rtpc' = [rtpc EXCEPT ![i] = "done"]
              /\ rsema' = rsema - 1
         ELSE IF rec # {}
         THEN /\ rtpc' = [rtpc EXCEPT ![i] = "done"]
              /\ rsema' = rsema - 1
              /\ UNCHANGED rec
         ELSE /\ rtpc' = [rtpc EXCEPT ![i] = "restoreFile"]
              /\ UNCHANGED <<rsema, rec>>
    /\ UNCHANGED <<flags, fileData, storage, feHash, bres, bm, disk, rres,
                   rpc, rret, stateFile, rctxDone, applied, createdDir,
                   corrupted, hvars, bvars, vvars>>

\* wg.Wait() and rec.Error(): a full restore returns; an incremental one
\* goes on to its binlog files
restoreFilesWait ==
    /\ rpc = "restoreFiles"
    /\ \A i \in Files : rtpc[i] = "done"
    /\ IF bm.Incremental
         THEN rpc' = "apply" /\ UNCHANGED rret
         ELSE IF rec # {}
           THEN restoreReturn(FALSE, "failed to restore files",
                              {ErrKind(e) : e \in rec})
           ELSE restoreReturn(TRUE, "", {})
    /\ UNCHANGED <<flags, fileData, storage, feHash, bres, bm, disk, rres,
                   stateFile, rctxDone, rtpc, rsema, rec, applied, createdDir,
                   corrupted, hvars, bvars, vvars>>

\* os.Remove of the applied files and os.RemoveAll(createdDir), deferred
RemoveAll(d) == [i \in Files |-> NoDisk]

\* (mutation: the scratch directory is removed only after the loop, not
\* by a deferred call)
applyBinlogFileKeepsDir(isMysqld, ok) ==
    /\ rpc = "apply"
    /\ IF ~isMysqld /\ applied = <<>>
         THEN /\ restoreReturn(FALSE, "expected: Mysqld", {"UNIMPLEMENTED"})
              /\ UNCHANGED <<applied, disk, createdDir>>
       ELSE IF Len(applied) < MaxFiles
         THEN IF ok
                THEN /\ applied' = Append(applied, Len(applied) + 1)
                     /\ UNCHANGED <<rpc, rret, disk, createdDir>>
                ELSE /\ restoreReturn(FALSE, "failed to extract binlog file",
                                      {"UNKNOWN"})
                     /\ UNCHANGED <<applied, disk, createdDir>>
         ELSE /\ IF rec # {}
                   THEN restoreReturn(FALSE, "failed to restore files",
                                      {ErrKind(e) : e \in rec})
                   ELSE restoreReturn(TRUE, "", {})
              /\ disk' = RemoveAll(disk)
              /\ createdDir' = IF createdDir = "" THEN "" ELSE "removed"
              /\ UNCHANGED applied
    /\ UNCHANGED <<flags, fileData, storage, feHash, bres, bm, rres,
                   stateFile, rctxDone, rtpc, rsema, rec, corrupted,
                   hvars, bvars, vvars>>

\* executeRestoreIncrementalBackup after restoreFiles: the type of
\* params.Mysqld, the loop over bm.FileEntries with ApplyBinlogFile of the
\* next entry up to params.RestoreToPos, then the error of restoreFiles;
\* every return runs the deferred os.Remove of the applied files and
\* os.RemoveAll(createdDir), which does nothing for the empty path
applyBinlogFile(isMysqld, ok) ==
    /\ rpc = "apply"
    /\ IF ~isMysqld /\ applied = <<>>
         THEN /\ restoreReturn(FALSE, "expected: Mysqld", {"UNIMPLEMENTED"})
              /\ disk' = RemoveAll(disk)
              /\ createdDir' = IF createdDir = "" THEN "" ELSE "removed"
              /\ UNCHANGED applied
       ELSE IF Len(applied) < MaxFiles
         THEN IF ok
                THEN /\ applied' = Append(applied, Len(applied) + 1)
                     /\ UNCHANGED <<rpc, rret, disk, createdDir>>
                ELSE /\ restoreReturn(FALSE, "failed to extract binlog file",
                                      {"UNKNOWN"})
                     /\ disk' = RemoveAll(disk)
                     /\ createdDir' = IF createdDir = "" THEN "" ELSE "removed"
                     /\ UNCHANGED applied
         ELSE /\ IF rec # {}
                   THEN restoreReturn(FALSE, "failed to restore files",
                                      {ErrKind(e) : e \in rec})
                   ELSE restoreReturn(TRUE, "", {})
              /\ disk' = RemoveAll(disk)
              /\ createdDir' = IF createdDir = "" THEN "" ELSE "removed"
              /\ UNCHANGED applied
    /\ UNCHANGED <<flags, fileData, storage, feHash, bres, bm, rres,
                   stateFile, rctxDone, rtpc, rsema, rec, corrupted,
                   hvars, bvars, vvars>>

\* the faults of restoreFile followed up in a whole restore
RestoreFaultsOfRestore == {"", "failed to copy file contents"}

\* the steps of ExecuteRestore and of its tasks, and the cancellation of its
\* context
RestoreSteps ==
    \/ restoreCancelCtx
    \/ \E manifestOk \in BOOLEAN, stateOk \in BOOLEAN, prepareOk \in BOOLEAN :
          ExecuteRestore(manifestOk, stateOk, prepareOk)
    \/ \E i \in Files, ok \in BOOLEAN : restoreAcquire(i, ok)
    \/ \E i \in Files : restoreCheck(i)
    \/ \E i \in Files, fault \in RestoreFaultsOfRestore,
          closeOk \in BOOLEAN : restoreFile(i, fault, closeOk)
    \/ restoreFilesWait
    \/ \E isMysqld \in BOOLEAN, ok \in BOOLEAN : applyBinlogFile(isMysqld, ok)

RestoreNext ==
    \/ \E i \in Files, k \in 1..(2 * MaxLen + 1), b \in Bytes :
          corruptStorage(i, k, b)
    \/ RestoreSteps

InitRestore ==
    /\ HealthInit
    /\ BackupIdle
    /\ RestoreInit
    /\ VStreamIdle

SpecRestore == InitRestore /\ [][RestoreNext]_vars

(***************************************************************************)
(* Properties of the per-file pipeline and of the restore.                 *)
(***************************************************************************)
\* the format restoreFile decodes: "none", a format, or "unsupported"
RestoreDecompressor ==
    LET dec == Decompressor(restoreFilesManifest(bm),
                            flags.ExternalDecompressorCmd) IN
    IF dec.kind \in {"none", "unsupported"} THEN dec.kind
    ELSE Format(dec.name)

\* C5: backupFile then restoreFile of an entry is a round trip.  The hash
\* recorded by backupFile is the hash of the stored bytes, so the hash
\* restoreFile recomputes over the bytes it reads equals it and no restore
\* of an unmodified backup ends in a hash mismatch, with or without
\* compression; a restoreFile that returns nil has written bytes identical
\* to the source file; and it returns nil whenever its environment raises
\* no fault and it decodes the format the backup encoded.
C5_RoundTrip ==
    \A i \in Files : rres[i].done =>
        /\ feHash[i] = HashString(storage[i])
        /\ rres[i].hash # NoHash => rres[i].hash = bm.FileEntries[i]
        /\ rres[i].err # "hash mismatch"
        /\ rres[i].err = "" =>
             /\ disk[i].exists /\ disk[i].flushed
             /\ disk[i].data = fileData[i]
        /\ rres[i].fault = "" /\ RestoreDecompressor = BackupCompressor(flags)
             => rres[i].err = ""

\* A file of the largest size was compressed, stored as other bytes than
\* its own, and restored without error.
C5_Witness ==
    \E i \in Files :
        /\ rres[i].done /\ rres[i].err = ""
        /\ ~bm.SkipCompress
        /\ Len(fileData[i]) = MaxLen
        /\ storage[i] # fileData[i]
        /\ disk[i].data = fileData[i]

\* restoreFile computed a hash that differs from the one in the manifest
HashMismatchFound ==
    \E i \in Files :
        /\ rres[i].done
        /\ rres[i].hash # NoHash
        /\ rres[i].hash # bm.FileEntries[i]

ShutdownFailed == \E k \in CallsOf("Shutdown") : ~calls[k].ok

NothingCopied ==
    /\ \A i \in Files : fes[i] = NoFileEntry /\ tpc[i] = "idle"
    /\ manifest = NoManifest
    /\ bhErrors = {}

\* C14: in a full backup nothing is copied before Mysqld.Shutdown has
\* returned success; a Shutdown called with a context that is done fails;
\* and when Shutdown fails ExecuteBackup has returned (false, "can't
\* shutdown mysqld") with no file copied, no manifest and no call of
\* Mysqld.Start.
C14_ShutdownIsBarrier ==
    ~isIncrementalBackup =>
        /\ ~ShutdownSucceeded => NothingCopied
        /\ \A k \in CallsOf("Shutdown") : calls[k].done => ~calls[k].ok
        /\ ShutdownFailed =>
              /\ bret.returned /\ ~bret.usable
              /\ bret.err = "can't shutdown mysqld"
              /\ NothingCopied
              /\ CallsOf("Start") = {}

\* The caller's context was done when Mysqld.Shutdown was called, and the
\* backup returned its error.
C14_Witness ==
    /\ ~isIncrementalBackup /\ ShutdownFailed /\ bret.returned
    /\ \E k \in CallsOf("Shutdown") : calls[k].done

ServerStateCalls ==
    {"Shutdown", "Start", "StopReplication", "StartReplication",
     "SetSuperReadOnly", "SetSuperReadOnly(false)", "SetSemiSyncEnabled"}

\* C15: a backup with a non-empty IncrementalFromPos never calls
\* Mysqld.Shutdown, Start, StopReplication or SetSuperReadOnly (nor any
\* other call that changes the server's state), and no step of it changes
\* the running / replication / read-only state of the server.
C15_IncrementalLeavesServer ==
    [][params.fromPos # "" =>
          /\ mysqld' = mysqld
          /\ \A k \in 1..Len(calls') :
                calls'[k].op \notin ServerStateCalls]_vars

\* An incremental backup ran to its end and stored a usable backup.
C15_Witness ==
    /\ params.fromPos # "" /\ bret.returned /\ bret.usable
    /\ manifest.written
    /\ CallsOf("FlushBinaryLogs") # {}

\* the from-position of the backup, "auto" resolved, is not one of MySQL56
OtherFlavor == {"MariaDB/0-1-10"}
Undecodable == {"garbage"}
Rejected == params.fromPos \in OtherFlavor \cup Undecodable

\* the errors of the steps before the from-position is looked at
EarlierErrors ==
    {"can't get server uuid", "can't get @@gtid_purged",
     "cannot get MySQL GTID purged value"}

NoSideEffect == CallsOf("FlushBinaryLogs") = {} /\ NothingCopied

C17_ManifestPositions ==
    manifest.written =>
        /\ manifest.Incremental = ~IsZero(manifest.FromPosition)
        /\ IF params.fromPos # ""
             THEN /\ manifest.FromPosition =
                         ParsePosition("MySQL56",
                                       saved.incrementalBackupFromGTID)
                  /\ manifest.Position =
                         ParsePosition("MySQL56",
                                       saved.incrementalBackupToGTID)
                  /\ manifest.Incremental
             ELSE /\ manifest.FromPosition = ZeroPosition
                  /\ manifest.Position = ServerPosition
                  /\ ~manifest.Incremental

\* An incremental manifest was written whose FromPosition is earlier than
\* the position asked for: the first file backed up starts from nothing.
C17_Witness ==
    /\ manifest.written /\ manifest.Incremental
    /\ manifest.FromPosition.gtids = {}
    /\ manifest.FromPosition.gtids #
           Mysql56GTIDSet(DecodePosition(params.fromPos))
    /\ manifest.Position.gtids # {}

\* C18: in every written incremental manifest the FromPosition is within
\* the Position as GTID sets.
C18_FromWithinEnd ==
    manifest.written /\ manifest.Incremental =>
        manifest.FromPosition.gtids \subseteq manifest.Position.gtids

\* An incremental manifest was written whose Position holds transactions
\* that its FromPosition does not.
C18_Witness ==
    /\ manifest.written /\ manifest.Incremental /\ bret.usable
    /\ manifest.FromPosition.gtids # {}
    /\ manifest.Position.gtids \ manifest.FromPosition.gtids # {}

\* C19: in an incremental restore no binlog file is applied unless every
\* file of the manifest was restored and verified: once a file is applied,
\* no error is recorded by restoreFiles and every restoreFile returned nil.
C19_NoApplyAfterFailure ==
    bm.Incremental /\ applied # <<>> =>
        /\ rec = {}
        /\ \A i \in Files : rres[i].done /\ rres[i].err = ""

\* C22: the wait for the replica's position to change is bounded by the
\* remote-operation timeout: a round of the wait that begins after that
\* timeout has expired does not sleep and go round again, also when the
\* position has not changed and the caller's context is not cancelled.
C22_WaitEndsAtTimeout == [][
    bpc = "wait" /\ saved.remoteCtxDone =>
        bpc' # "wait" \/ saved'.polls = saved.polls]_vars

\* the first n files of the manifest, in its order
ManifestPrefix(n) == [k \in 1..n |-> k]

\* an incremental restore that got as far as its binlog files has returned
IncrementalReturned ==
    /\ bm.present /\ bm.Incremental /\ stateFile
    /\ rret.returned

InitCopy ==
    /\ HealthInit
    /\ \/ BackupInit /\ FileIdle
       \/ BackupIdle /\ RestoreInit
    /\ VStreamIdle

\* the restore reads the backup as it was stored
CopyNext ==
    \/ BackupNext
    \/ RestoreSteps

SpecCopy == InitCopy /\ [][CopyNext]_vars

\* the backupFile / restoreFile calls in progress
BackupsInProgress == {i \in Files : tpc[i] \in {"backupFile", "copy"}}
RestoresInProgress == {i \in Files : rtpc[i] = "restoreFile"}

\* C13: with concurrency limit N, at most N backupFile calls and at most N
\* restoreFile calls are in progress at any time, and the slots of each
\* semaphore in use never exceed N.
C13_BoundedConcurrency ==
    /\ Cardinality(BackupsInProgress) <= sema
    /\ sema <= params.concurrency
    /\ Cardinality(RestoresInProgress) <= rsema
    /\ rsema <= flags.concurrency

\* Every slot is taken by a copy in progress while another task waits.
C13_Witness ==
    \/ /\ Cardinality(BackupsInProgress) = params.concurrency
       /\ \E i \in Files : tpc[i] = "Acquire"
    \/ /\ Cardinality(RestoresInProgress) = flags.concurrency
       /\ \E i \in Files : rtpc[i] = "Acquire"

(***************************************************************************)
(* The decompressor of a restore.                                          *)
(***************************************************************************)
\* the engine names a manifest can carry: those of a backup, or none
ManifestEngines == Engines \cup {""}

\* the decompressor the rule gives for the four inputs
ChosenDecompressor(skip, engine, flag, embedded) ==
    IF skip THEN [kind |-> "none", name |-> ""]
    ELSE IF engine = ExternalCompressor
      THEN IF flag # "" THEN [kind |-> "external", name |-> flag]
           ELSE IF embedded # "" THEN [kind |-> "external", name |-> embedded]
           ELSE [kind |-> "unsupported", name |-> ExternalCompressor]
    ELSE IF engine \in {"", PargzipCompressor}
      THEN [kind |-> "builtin", name |-> PgzipCompressor]
    ELSE [kind |-> "builtin", name |-> engine]

\* the bytes the chosen decompressor makes of the stored bytes
ChosenPlain(dec, stored) ==
    IF dec.kind = "none" THEN stored ELSE Decompress(Format(dec.name), stored)

\* C20: the decompressor of restoreFile is none when the manifest has
\* SkipCompress; for the engine "external" it is the command of the
\* restore-time flag if set, else the command of the manifest, and the
\* restore fails if neither is set; for any other engine it is the built-in
\* decompressor of that name, never a command; an omitted engine and
\* pargzip are read as pgzip.  A restored file shows the choice: it fails as
\* unsupported exactly when no command is there for "external", and what
\* it writes is what the chosen decompressor makes of the stored bytes.
C20_DecompressorChoice ==
    /\ \A skip \in BOOLEAN, engine \in ManifestEngines,
          flag \in ExternalDecompressorCmds,
          embedded \in ExternalDecompressorCmds :
          Decompressor(restoreFilesManifest(
                           [bm EXCEPT !.SkipCompress = skip,
                                      !.CompressionEngine = engine,
                                      !.ExternalDecompressor = embedded]),
                       flag)
            = ChosenDecompressor(skip, engine, flag, embedded)
    /\ \A i \in Files :
          rres[i].done /\ rres[i].fault = "" =>
            LET dec == ChosenDecompressor(bm.SkipCompress,
                                          bm.CompressionEngine,
                                          flags.ExternalDecompressorCmd,
                                          bm.ExternalDecompressor) IN
            /\ rres[i].err = "unsupported engine" <=> dec.kind = "unsupported"
            /\ rres[i].err = "failed to copy file contents"
                 <=> /\ dec.kind # "unsupported"
                     /\ Format(dec.name) # "unsupported" \/ dec.kind = "none"
                     /\ ChosenPlain(dec, storage[i]) = DecodeError
            /\ rres[i].err = "" => disk[i].data = ChosenPlain(dec, storage[i])

\* a file compressed by an external command is restored by the command of
\* the restore-time flag although the manifest carries another one
C20_Witness ==
    /\ bm.present /\ ~bm.SkipCompress
    /\ bm.CompressionEngine = ExternalCompressor
    /\ flags.ExternalDecompressorCmd = "zstd -d"
    /\ bm.ExternalDecompressor = "lz4 -d"
    /\ \E i \in Files : rres[i].done /\ rres[i].fault = "" /\ rres[i].err = ""

(***************************************************************************)
(* One VStream session: the binlog events read from the server are parsed  *)
(* into events, filtered by the rule of their table, buffered and handed   *)
(* to the consumer callback in batches.                                    *)
(***************************************************************************)
Tables == {"t1", "t2"}
ImageSizes == {4, 7, 12}      \* bytes of the row images of the statements
Filters == {"all", "where"}   \* a rule without and one with a predicate

\* a row image: the bytes of its values and the value of the predicate of
\* the rule on it; NoImage stands for an image that is not there
NoImage == [size |-> 0, pass |-> FALSE]
Image(size, pass) == [size |-> size, pass |-> pass]

\* the rules of the session: "all" is a rule that matches every table and
\* has no predicate, "where" a rule that matches t1 and has a predicate
Matches(filter, table) == filter = "all" \/ table = "t1"

\* the row changes of the statements on a table: under "all" INSERTs of
\* each size and an UPDATE on t1; under "where" INSERTs and UPDATEs of rows
\* of t1 in and out of the predicate, and a DELETE; an INSERT on t2
Changes(filter, table) ==
    IF table # "t1"
      THEN {[before |-> NoImage, after |-> Image(4, TRUE)]}
    ELSE IF filter = "where"
      THEN {[before |-> NoImage, after |-> Image(4, b)] : b \in BOOLEAN}
           \cup {[before |-> Image(4, TRUE), after |-> NoImage]}
           \cup {[before |-> Image(4, b), after |-> Image(4, a)] :
                    b \in BOOLEAN, a \in BOOLEAN}
      ELSE {[before |-> NoImage, after |-> Image(n, TRUE)] : n \in ImageSizes}
           \cup {[before |-> Image(4, TRUE), after |-> Image(4, TRUE)]}

\* an event of the binlog, and an event of the stream (binlogdatapb.VEvent);
\* n is the position of a GTID, the column set of a FIELD or of a table map,
\* and the primary key of a LASTPK (0 with the completed marker)
BinlogEvent(type, table, n, before, after) ==
    [type |-> type, table |-> table, n |-> n, before |-> before,
     after |-> after]
VEvent(type, table, n, before, after, from) ==
    [type |-> type, table |-> table, n |-> n, before |-> before,
     after |-> after, from |-> from]
Plain(type, from) == VEvent(type, "", 0, NoImage, NoImage, from)

\* the row payload of an event: the bytes of its before and after images
RowSize(ev) == ev.before.size + ev.after.size

\* an image passes the predicate of the rule of its table
Passes(filter, img) == img # NoImage /\ (filter = "all" \/ img.pass)

\* (mutation: an update is kept whole when one of its images passes)
FilteredWhole(filter, img, other) ==
    IF Passes(filter, img) \/ (img # NoImage /\ Passes(filter, other))
      THEN img ELSE NoImage

\* the image the plan of the table keeps of img (other is the other image
\* of the row change)
Filtered(filter, img, other) ==
    IF Passes(filter, img) THEN img ELSE NoImage

\* (mutation: a DDL is buffered like a GTID and leaves with the next batch)
bufferAndTransmitDDLBuffered(b, ev) ==
    CASE ev.type \in {"GTID", "BEGIN", "FIELD", "DDL"} ->
           [b EXCEPT !.bufferedEvents = Append(@, ev)]
      [] ev.type = "COMMIT" ->
           [bufferedEvents |-> <<>>, curSize |-> 0,
            sent |-> Append(b.sent, Append(b.bufferedEvents, ev))]
      [] OTHER ->
           IF b.curSize + RowSize(ev) > PacketSize
             THEN [bufferedEvents |-> <<ev>>, curSize |-> RowSize(ev),
                   sent |-> Append(b.sent, b.bufferedEvents)]
             ELSE [b EXCEPT !.bufferedEvents = Append(@, ev),
                            !.curSize = @ + RowSize(ev)]

\* (mutation: a row is added to the buffer before the size is compared)
bufferThenTransmit(b, ev) ==
    CASE ev.type \in {"GTID", "BEGIN", "FIELD"} ->
           [b EXCEPT !.bufferedEvents = Append(@, ev)]
      [] ev.type \in {"COMMIT", "DDL"} ->
           [bufferedEvents |-> <<>>, curSize |-> 0,
            sent |-> Append(b.sent, Append(b.bufferedEvents, ev))]
      [] OTHER ->
           IF b.curSize + RowSize(ev) > PacketSize
             THEN [bufferedEvents |-> <<>>, curSize |-> 0,
                   sent |-> Append(b.sent, Append(b.bufferedEvents, ev))]
             ELSE [b EXCEPT !.bufferedEvents = Append(@, ev),
                            !.curSize = @ + RowSize(ev)]

\* bufferAndTransmit: GTID, BEGIN and FIELD are buffered; COMMIT and DDL
\* are added and the buffer is sent; a ROW that would take the buffered
\* payload over the packet size has the buffer sent first and starts the
\* next one
bufferAndTransmit(b, ev) ==
    CASE ev.type \in {"GTID", "BEGIN", "FIELD"} ->
           [b EXCEPT !.bufferedEvents = Append(@, ev)]
      [] ev.type \in {"COMMIT", "DDL"} ->
           [bufferedEvents |-> <<>>, curSize |-> 0,
            sent |-> Append(b.sent, Append(b.bufferedEvents, ev))]
      [] OTHER ->
           IF b.curSize + RowSize(ev) > PacketSize
             THEN [bufferedEvents |-> <<ev>>, curSize |-> RowSize(ev),
                   sent |-> Append(b.sent, b.bufferedEvents)]
             ELSE [b EXCEPT !.bufferedEvents = Append(@, ev),
                            !.curSize = @ + RowSize(ev)]

RECURSIVE TransmitAll(_, _)
TransmitAll(b, evs) ==
    IF evs = <<>> THEN b
    ELSE TransmitAll(bufferAndTransmit(b, Head(evs)), Tail(evs))

\* the table sets of a VStreamCopy, in the order they are copied
CopyTables == {<<>>, <<"t1">>, <<"t1", "t2">>}

\* a session is started at the current position, or as a VStreamCopy of
\* tables the server has filled in its first transaction
VStreamInit ==
    /\ \E filter \in Filters, copy \in BOOLEAN, tables \in CopyTables :
          /\ ~copy => tables = <<>>
          /\ copy => filter = "all"
          /\ vs = [phase |-> IF copy THEN "copy" ELSE "tail",
                   filter |-> filter, txn |-> "idle", mapped |-> "",
                   pos |-> IF copy THEN 1 ELSE 0, plans |-> [t \in Tables |-> "UNKNOWN"],
                   cols |-> [t \in Tables |-> 1],
                   bufferedEvents |-> <<>>, curSize |-> 0, rows |-> 0,
                   toCopy |-> tables, copied |-> {}, cpc |-> "field",
                   pk |-> 0]
    /\ binlog = <<>>
    /\ vevents = <<>>
    /\ sent = <<>>
    /\ schemaVersion = <<>>
    /\ tracker = NoTracker

\* the binlog events the server can write next: GTID, then a DDL or a
\* transaction of BEGIN, a table map and a row event per statement, XID
NextBinlogEvents ==
    CASE vs.txn = "idle" ->
           IF vs.pos < MaxTxns
             THEN {BinlogEvent("GTID", "", vs.pos + 1, NoImage, NoImage)}
             ELSE {}
      [] vs.txn = "gtid" ->
           {BinlogEvent("BEGIN", "", 0, NoImage, NoImage)}
           \cup {BinlogEvent("DDL", t, 0, NoImage, NoImage) : t \in Tables}
      [] vs.txn = "begun" ->
           {BinlogEvent("XID", "", 0, NoImage, NoImage)}
           \cup IF vs.rows < MaxRows
                  THEN {BinlogEvent("TABLE_MAP", t, vs.cols[t], NoImage,
                                    NoImage) : t \in Tables}
                  ELSE {}
      [] OTHER ->
           {BinlogEvent("ROWS", vs.mapped, 0, c.before, c.after) :
               c \in Changes(vs.filter, vs.mapped)}

\* (mutation: a table map of a table that was mapped before sends no FIELD)
parseEventFieldOnce(ev) ==
    CASE ev.type = "GTID" ->
           [vs |-> [vs EXCEPT !.pos = ev.n, !.txn = "gtid"], evs |-> <<>>]
      [] ev.type = "BEGIN" ->
           [vs |-> [vs EXCEPT !.txn = "begun"],
            evs |-> <<Plain("BEGIN", "binlog")>>]
      [] ev.type = "XID" ->
           [vs |-> [vs EXCEPT !.txn = "idle"],
            evs |-> <<VEvent("GTID", "", vs.pos, NoImage, NoImage, "binlog"),
                      Plain("COMMIT", "binlog")>>]
      [] ev.type = "DDL" ->
           [vs |-> [vs EXCEPT !.txn = "idle",
                              !.plans[ev.table] =
                                  IF @ = "MAPPED" THEN "DROPPED" ELSE @,
                              !.cols[ev.table] = @ + 1],
            evs |-> <<VEvent("GTID", "", vs.pos, NoImage, NoImage, "binlog"),
                      VEvent("DDL", ev.table, 0, NoImage, NoImage,
                             "binlog")>>]
      [] ev.type = "TABLE_MAP" ->
           [vs |-> [vs EXCEPT !.txn = "mapped", !.mapped = ev.table,
                              !.plans[ev.table] = "MAPPED"],
            evs |-> IF vs.plans[ev.table] = "UNKNOWN"
                         /\ Matches(vs.filter, ev.table)
                      THEN <<VEvent("FIELD", ev.table, ev.n, NoImage,
                                    NoImage, "binlog")>>
                      ELSE <<>>]
      [] OTHER ->
           LET before == Filtered(vs.filter, ev.before, ev.after)
               after == Filtered(vs.filter, ev.after, ev.before) IN
           [vs |-> [vs EXCEPT !.txn = "begun", !.rows = @ + 1],
            evs |-> IF ~Matches(vs.filter, ev.table)
                       \/ (before = NoImage /\ after = NoImage) THEN <<>>
                    ELSE <<VEvent("ROW", ev.table, 0, before, after,
                                  "binlog")>>]

\* parseEvent: the events made of one binlog event.  A GTID is kept as the
\* position and sent before the COMMIT or the DDL it belongs to; a table
\* map of a table that is not mapped sends its FIELD; a DDL drops the map
\* of its table; a row event is sent with the images that pass the rule
parseEvent(ev) ==
    CASE ev.type = "GTID" ->
           [vs |-> [vs EXCEPT !.pos = ev.n, !.txn = "gtid"], evs |-> <<>>]
      [] ev.type = "BEGIN" ->
           [vs |-> [vs EXCEPT !.txn = "begun"],
            evs |-> <<Plain("BEGIN", "binlog")>>]
      [] ev.type = "XID" ->
           [vs |-> [vs EXCEPT !.txn = "idle"],
            evs |-> <<VEvent("GTID", "", vs.pos, NoImage, NoImage, "binlog"),
                      Plain("COMMIT", "binlog")>>]
      [] ev.type = "DDL" ->
           [vs |-> [vs EXCEPT !.txn = "idle",
                              !.plans[ev.table] =
                                  IF @ = "MAPPED" THEN "DROPPED" ELSE @,
                              !.cols[ev.table] = @ + 1],
            evs |-> <<VEvent("GTID", "", vs.pos, NoImage, NoImage, "binlog"),
                      VEvent("DDL", ev.table, 0, NoImage, NoImage,
                             "binlog")>>]
      [] ev.type = "TABLE_MAP" ->
           [vs |-> [vs EXCEPT !.txn = "mapped", !.mapped = ev.table,
                              !.plans[ev.table] = "MAPPED"],
            evs |-> IF vs.plans[ev.table] # "MAPPED"
                         /\ Matches(vs.filter, ev.table)
                      THEN <<VEvent("FIELD", ev.table, ev.n, NoImage,
                                    NoImage, "binlog")>>
                      ELSE <<>>]
      [] OTHER ->
           LET before == Filtered(vs.filter, ev.before, ev.after)
               after == Filtered(vs.filter, ev.after, ev.before) IN
           [vs |-> [vs EXCEPT !.txn = "begun", !.rows = @ + 1],
            evs |-> IF ~Matches(vs.filter, ev.table)
                       \/ (before = NoImage /\ after = NoImage) THEN <<>>
                    ELSE <<VEvent("ROW", ev.table, 0, before, after,
                                  "binlog")>>]

\* the streamer reads the next binlog event, parses it, and buffers or
\* sends what it made of it
readBinlog(ev) ==
    /\ vs.phase = "tail"
    /\ ev \in NextBinlogEvents
    /\ LET p == parseEvent(ev)
           b == TransmitAll([bufferedEvents |-> vs.bufferedEvents,
                             curSize |-> vs.curSize, sent |-> sent],
                            p.evs) IN
       /\ vs' = [p.vs EXCEPT !.bufferedEvents = b.bufferedEvents,
                             !.curSize = b.curSize]
       /\ sent' = b.sent
       /\ vevents' = vevents \o p.evs
    /\ binlog' = Append(binlog, ev)
    /\ UNCHANGED <<schemaVersion, tracker, hvars, bvars, fvars>>

\* the callback is handed one batch of the copy
sendCopy(batch) ==
    /\ sent' = Append(sent, batch)
    /\ vevents' = vevents \o batch

CopyRow(t, pk) ==
    VEvent("ROW", t, pk, NoImage, Image(4, TRUE), "copy")
LastPK(t, pk) == VEvent("LASTPK", t, pk, NoImage, NoImage, "copy")

\* the copy of the next table begins: its FIELD event, and with the first
\* table the position of the snapshot
copyField ==
    /\ vs.phase = "copy" /\ vs.cpc = "field" /\ vs.toCopy # <<>>
    /\ LET t == Head(vs.toCopy)
           field == <<Plain("BEGIN", "copy"),
                      VEvent("FIELD", t, vs.cols[t], NoImage, NoImage,
                             "copy")>> IN
       /\ sent' = IF vs.copied = {}
                    THEN sent \o <<field, <<VEvent("GTID", "", vs.pos,
                                     NoImage, NoImage, "copy")>>>>
                    ELSE Append(sent, field)
       /\ vevents' = IF vs.copied = {}
                       THEN vevents \o field
                            \o <<VEvent("GTID", "", vs.pos, NoImage,
                                        NoImage, "copy")>>
                       ELSE vevents \o field
    /\ vs' = [vs EXCEPT !.cpc = "rows", !.pk = 0]
    /\ UNCHANGED <<binlog, schemaVersion, tracker, hvars, bvars, fvars>>

\* one batch of n rows of the table, in the order of the primary key, closed
\* by the LASTPK of its last row
copyRows(n) ==
    /\ vs.phase = "copy" /\ vs.cpc = "rows"
    /\ n \in 1..2
    /\ vs.rows + n <= MaxRows
    /\ LET t == Head(vs.toCopy) IN
       sendCopy((IF vs.pk = 0 THEN <<>> ELSE <<Plain("BEGIN", "copy")>>)
                \o [k \in 1..n |-> CopyRow(t, vs.pk + k)]
                \o <<LastPK(t, vs.pk + n), Plain("COMMIT", "copy")>>)
    /\ vs' = [vs EXCEPT !.pk = @ + n, !.rows = @ + n]
    /\ UNCHANGED <<binlog, schemaVersion, tracker, hvars, bvars, fvars>>

\* the table has no more rows: the LASTPK with the completed marker
copyTableDone ==
    /\ vs.phase = "copy" /\ vs.cpc = "rows"
    /\ sendCopy(<<Plain("BEGIN", "copy"), LastPK(Head(vs.toCopy), 0),
                  Plain("COMMIT", "copy")>>)
    /\ vs' = [vs EXCEPT !.cpc = "field", !.toCopy = Tail(@),
                        !.copied = @ \cup {Head(vs.toCopy)}]
    /\ UNCHANGED <<binlog, schemaVersion, tracker, hvars, bvars, fvars>>

\* catch-up between two tables: a transaction the server committed on a
\* table that is fully copied is merged into the stream
copyCatchUp(t) ==
    /\ vs.phase = "copy" /\ vs.cpc = "field" /\ vs.toCopy # <<>>
    /\ t \in vs.copied
    /\ vs.pos < MaxTxns /\ vs.rows < MaxRows
    /\ LET img == Image(4, TRUE) IN
       /\ binlog' = binlog \o
            <<BinlogEvent("GTID", "", vs.pos + 1, NoImage, NoImage),
              BinlogEvent("BEGIN", "", 0, NoImage, NoImage),
              BinlogEvent("TABLE_MAP", t, vs.cols[t], NoImage, NoImage),
              BinlogEvent("ROWS", t, 0, NoImage, img),
              BinlogEvent("XID", "", 0, NoImage, NoImage)>>
       /\ sendCopy(<<Plain("BEGIN", "binlog"),
                     VEvent("FIELD", t, vs.cols[t], NoImage, NoImage,
                            "binlog"),
                     VEvent("ROW", t, 0, NoImage, img, "binlog"),
                     VEvent("GTID", "", vs.pos + 1, NoImage, NoImage,
                            "binlog"),
                     Plain("COMMIT", "binlog")>>)
    /\ vs' = [vs EXCEPT !.pos = @ + 1, !.rows = @ + 1]
    /\ UNCHANGED <<schemaVersion, tracker, hvars, bvars, fvars>>

\* (mutation: COPY_COMPLETED is sent as soon as no table is being copied,
\* whether or not tables are left)
copyCompletedEarly ==
    /\ vs.phase = "copy" /\ vs.cpc = "field"
    /\ sendCopy(<<Plain("COPY_COMPLETED", "copy")>>)
    /\ vs' = [vs EXCEPT !.phase = "tail"]
    /\ UNCHANGED <<binlog, schemaVersion, tracker, hvars, bvars, fvars>>

\* all tables are copied: COPY_COMPLETED, and the session goes on to
\* follow the binlog
copyCompleted ==
    /\ vs.phase = "copy" /\ vs.cpc = "field" /\ vs.toCopy = <<>>
    /\ sendCopy(<<Plain("COPY_COMPLETED", "copy")>>)
    /\ vs' = [vs EXCEPT !.phase = "tail"]
    /\ UNCHANGED <<binlog, schemaVersion, tracker, hvars, bvars, fvars>>

VStreamNext ==
    \/ copyField
    \/ \E n \in 1..2 : copyRows(n)
    \/ copyTableDone
    \/ \E t \in Tables : copyCatchUp(t)
    \/ copyCompleted
    \/ /\ vs.phase = "tail"
       /\ \E ev \in NextBinlogEvents : readBinlog(ev)

InitVStream ==
    /\ HealthInit
    /\ BackupIdle
    /\ FileIdle
    /\ VStreamInit

SpecVStream == InitVStream /\ [][VStreamNext]_vars

(***************************************************************************)
(* Properties of the VStream session.                                      *)
(***************************************************************************)
RECURSIVE Flatten(_)
Flatten(batches) ==
    IF batches = <<>> THEN <<>>
    ELSE Head(batches) \o Flatten(Tail(batches))

RECURSIVE Payload(_)
Payload(batch) ==
    IF batch = <<>> THEN 0
    ELSE (IF Head(batch).type = "ROW" THEN RowSize(Head(batch)) ELSE 0)
         + Payload(Tail(batch))

RowsOf(batch) == {k \in 1..Len(batch) : batch[k].type = "ROW"}

\* the batches made of the binlog by the streamer
Streamed == {k \in 1..Len(sent) : sent[k][Len(sent[k])].from = "binlog"}

\* the event that follows batch k in the stream, if there is one yet
Following(k) ==
    IF k < Len(sent) THEN <<sent[k + 1][1]>>
    ELSE IF vs.bufferedEvents # <<>> THEN <<vs.bufferedEvents[1]>>
    ELSE <<>>

\* C23: a batch that does not end with a COMMIT or a DDL was sent because
\* the next ROW event would have taken the buffered row payload over the
\* packet size, and that event starts the next batch; every batch has a
\* row payload within the packet size unless it holds a single ROW event;
\* the batches, followed by what is buffered, are the events of the stream
\* in their order, none lost and none twice.
C23_PacketsBySize ==
    vs.phase # "idle" =>
      /\ \A k \in 1..Len(sent) : sent[k] # <<>>
      /\ \A k \in Streamed :
            /\ Payload(sent[k]) <= PacketSize
                  \/ Cardinality(RowsOf(sent[k])) = 1
            /\ sent[k][Len(sent[k])].type \notin {"COMMIT", "DDL"} =>
                  /\ Following(k) # <<>>
                  /\ Following(k)[1].type = "ROW"
                  /\ Payload(sent[k]) + RowSize(Following(k)[1]) > PacketSize
      /\ Payload(vs.bufferedEvents) = vs.curSize
      /\ vs.curSize <= PacketSize
            \/ Cardinality(RowsOf(vs.bufferedEvents)) = 1
      /\ Flatten(sent) \o vs.bufferedEvents = vevents

\* a transaction was cut before its second row, which is larger than the
\* packet size and was delivered as the only row of the last batch
C23_Witness ==
    /\ vs.phase = "tail"
    /\ \E k \in Streamed :
          /\ k < Len(sent)
          /\ sent[k][Len(sent[k])].type = "ROW"
          /\ Payload(sent[k]) <= PacketSize
          /\ Payload(sent[k + 1]) > PacketSize
          /\ sent[k + 1][Len(sent[k + 1])].type = "COMMIT"

IsGTID(e) == e.type = "GTID"
IsStreamGTID(e) == e.type = "GTID" /\ e.from = "binlog"
BinlogGTIDs == SelectSeq(binlog, IsGTID)
StreamGTIDs == SelectSeq(vevents, IsStreamGTID)

\* C24: a DDL event is delivered in a batch of two events, the GTID event
\* that precedes it in the binlog and the DDL; the GTID event of a
\* transaction is delivered immediately before its COMMIT, in the batch
\* the COMMIT ends; the GTID events come with the positions of the binlog,
\* in its order.
C24_GtidWithDdlAndCommit ==
    vs.phase # "idle" =>
      /\ \A k \in Streamed : \A i \in 1..Len(sent[k]) :
            LET e == sent[k][i] IN
            /\ e.type = "DDL" =>
                  /\ Len(sent[k]) = 2 /\ i = 2
                  /\ sent[k][1].type = "GTID"
            /\ e.type = "COMMIT" =>
                  /\ i = Len(sent[k]) /\ i > 1
                  /\ sent[k][i - 1].type = "GTID"
            /\ e.type = "GTID" =>
                  /\ i < Len(sent[k])
                  /\ sent[k][i + 1].type \in {"DDL", "COMMIT"}
      /\ \A i \in 1..Len(vs.bufferedEvents) :
            vs.bufferedEvents[i].type \notin {"GTID", "DDL", "COMMIT"}
      /\ Len(StreamGTIDs) <= Len(BinlogGTIDs)
      /\ \A i \in 1..Len(StreamGTIDs) : StreamGTIDs[i].n = BinlogGTIDs[i].n

\* a DDL went out with its GTID, and after it a transaction with a row
\* whose GTID is the event before its COMMIT
C24_Witness ==
    /\ vs.phase = "tail"
    /\ \E k \in Streamed : \E j \in Streamed :
          /\ k < j
          /\ Len(sent[k]) = 2
          /\ sent[k][2].type = "DDL" /\ sent[k][1].n = 1
          /\ sent[j][Len(sent[j])].type = "COMMIT"
          /\ sent[j][Len(sent[j]) - 1].n = 2
          /\ RowsOf(sent[j]) # {}

IsField(i, t) == vevents[i].type = "FIELD" /\ vevents[i].table = t
IsDDL(i, t) == vevents[i].type = "DDL" /\ vevents[i].table = t
FieldsBefore(i, t) == {j \in 1..(i - 1) : IsField(j, t)}
DDLsBefore(i, t) == {j \in 1..(i - 1) : IsDDL(j, t)}
LastOf(S) == CHOOSE j \in S : \A k \in S : k <= j

\* the events up to COPY_COMPLETED are those of the copy and its catch-up
CopyEnd ==
    LET S == {i \in 1..Len(vevents) : vevents[i].type = "COPY_COMPLETED"} IN
    IF S = {} THEN (IF vs.phase = "copy" THEN Len(vevents) ELSE 0)
    ELSE LastOf(S)

\* every ROW event of a table comes after a FIELD event of that table, and
\* the latest one before it has the column set the table had then
RowsAfterTheirField ==
    \A t \in Tables : \A i \in 1..Len(vevents) :
        vevents[i].type = "ROW" /\ vevents[i].table = t =>
            /\ FieldsBefore(i, t) # {}
            /\ vevents[LastOf(FieldsBefore(i, t))].n
                  = 1 + Cardinality(DDLsBefore(i, t))

\* C25 as claimed: every ROW event of a table is preceded in the session by
\* a FIELD event of that table; the FIELD event is sent once per table, and
\* again, with the refreshed column set, only before the first ROW event
\* that follows a DDL changing the table.
C25_FieldOncePerSession ==
    vs.phase # "idle" =>
      /\ RowsAfterTheirField
      /\ \A t \in Tables : \A i \in 1..Len(vevents) :
            IsField(i, t) /\ FieldsBefore(i, t) # {} =>
                \E d \in DDLsBefore(i, t) : d > LastOf(FieldsBefore(i, t))

\* C25 amended: every ROW event of a table is preceded in the session by a
\* FIELD event of that table with the column set in force; while the
\* session follows the binlog the FIELD event is sent once per table, and
\* again only before the first ROW event that follows a DDL changing the
\* table (a VStreamCopy has sent it before, with the copy of the table and
\* with each catch-up).
C25_FieldOncePerTableFollowing ==
    vs.phase # "idle" =>
      /\ RowsAfterTheirField
      /\ \A t \in Tables : \A i \in 1..Len(vevents) :
            LET F == {j \in FieldsBefore(i, t) : j > CopyEnd} IN
            IsField(i, t) /\ F # {} =>
                \E d \in DDLsBefore(i, t) : d > LastOf(F)

\* the FIELD event of t1 was sent, a DDL changed t1, and the FIELD event
\* was sent again with the new column set before the next row of t1
C25_Witness ==
    /\ vs.phase = "tail" /\ vs.toCopy = <<>> /\ vs.copied = {}
    /\ \E i \in 1..Len(vevents) :
          /\ vevents[i].type = "ROW" /\ vevents[i].table = "t1"
          /\ IsField(i - 1, "t1") /\ vevents[i - 1].n = 2
          /\ \E j \in FieldsBefore(i - 1, "t1") : vevents[j].n = 1

\* the predicate P of the rule of the session, on one image of a row
P(img) == vs.filter = "all" \/ img.pass

\* what the rule of C26 makes of one row change of the binlog
RuleOf(ev) ==
    [table |-> ev.table,
     before |-> IF ev.before # NoImage /\ P(ev.before)
                  THEN ev.before ELSE NoImage,
     after |-> IF ev.after # NoImage /\ P(ev.after)
                 THEN ev.after ELSE NoImage]

IsRowChange(ev) == ev.type = "ROWS" /\ Matches(vs.filter, ev.table)
IsStreamedRow(ev) == ev.type = "ROW" /\ ev.from = "binlog"
IsKept(c) == c.before # NoImage \/ c.after # NoImage

RowChangesRead ==
    LET S == SelectSeq(binlog, IsRowChange) IN
    SelectSeq([i \in 1..Len(S) |-> RuleOf(S[i])], IsKept)

RowChangesSent ==
    LET S == SelectSeq(vevents, IsStreamedRow) IN
    [i \in 1..Len(S) |->
        [table |-> S[i].table, before |-> S[i].before, after |-> S[i].after]]

\* C26: a row change with before-image B and after-image A is emitted with
\* the before-image iff P(B) and the after-image iff P(A), and is omitted
\* when neither holds: the row changes sent are, in order, the row changes
\* read from the binlog with each image kept iff it passes, less those
\* with no image left.
C26_ImagesByPredicate ==
    vs.phase # "idle" => RowChangesSent = RowChangesRead

\* an UPDATE that moved a row out of the filter was sent with its
\* before-image alone, and one that moved a row into it with its
\* after-image alone
C26_Witness ==
    /\ vs.phase = "tail" /\ vs.filter = "where"
    /\ \E i, j \in 1..Len(binlog) :
          /\ binlog[i].type = "ROWS" /\ binlog[j].type = "ROWS"
          /\ binlog[i].before.pass /\ binlog[i].after # NoImage
          /\ ~binlog[i].after.pass
          /\ binlog[j].before # NoImage /\ ~binlog[j].before.pass
          /\ binlog[j].after.pass
    /\ \E k, l \in 1..Len(vevents) :
          /\ vevents[k].type = "ROW" /\ vevents[l].type = "ROW"
          /\ vevents[k].before # NoImage /\ vevents[k].after = NoImage
          /\ vevents[l].before = NoImage /\ vevents[l].after # NoImage

Events == 1..Len(vevents)
IsCopy(i, type, t) ==
    vevents[i].from = "copy" /\ vevents[i].type = type /\ vevents[i].table = t
IsMarker(i, t) == IsCopy(i, "LASTPK", t) /\ vevents[i].n = 0
Completed == {i \in Events : vevents[i].type = "COPY_COMPLETED"}
CopiedEvents(t) ==
    {i \in Events : \E type \in {"FIELD", "ROW", "LASTPK"} : IsCopy(i, type, t)}

\* the copy of each table: FIELD, rows by primary key, a LASTPK closing each
\* batch of rows, the completed marker last; the tables one at a time
TablesOneAtATime ==
    \A t \in Tables :
      /\ \A i \in CopiedEvents(t) :
            /\ IsCopy(i, "FIELD", t) => CopiedEvents(t) \cap 1..(i - 1) = {}
            /\ IsMarker(i, t) =>
                  /\ \A j \in CopiedEvents(t) : j <= i
                  /\ t \in vs.copied
            /\ IsCopy(i, "ROW", t) =>
                  /\ \E j \in 1..(i - 1) : IsCopy(j, "FIELD", t)
                  /\ \A j \in 1..(i - 1) :
                        IsCopy(j, "ROW", t) => vevents[j].n < vevents[i].n
                  /\ i < Len(vevents)
                  /\ \/ IsCopy(i + 1, "ROW", t)
                     \/ IsCopy(i + 1, "LASTPK", t)
                          /\ vevents[i + 1].n = vevents[i].n
      /\ t \in vs.copied => \E i \in Events : IsMarker(i, t)
      /\ \A u \in Tables \ {t} : \A i \in CopiedEvents(t) :
            \A j \in CopiedEvents(u) : \A k \in CopiedEvents(t) :
                ~(i < j /\ j < k)

\* COPY_COMPLETED once, after the completed marker of the last table, first
\* of all when there is no table
CompletedOnce ==
    /\ Cardinality(Completed) <= 1
    /\ vs.phase = "copy" => Completed = {}
    /\ vs.phase = "tail" /\ (\E i \in Events : vevents[i].from = "copy")
          => Cardinality(Completed) = 1
    /\ \A c \in Completed :
          /\ vs.toCopy = <<>>
          /\ \A i \in Events : vevents[i].from = "copy" => i <= c
          /\ vs.copied = {} => c = 1
          /\ vs.copied # {} =>
                /\ c > 2
                /\ \E t \in vs.copied : IsMarker(c - 2, t)

GtidExecuted == 3     \* @@GLOBAL.gtid_executed of the server, "...:1-3"
StreamGtids == {0, 10, 11}     \* 0 is the empty gtid, 10 is gtid1 "...:1-10"
Statements == {"", "create table tracker_test (id int)"}

SchemaRow(pos, ddl, initial) == [pos |-> pos, ddl |-> ddl, initial |-> initial]
InitialSchemaRow == SchemaRow(GtidExecuted, "Initial Schema", TRUE)
InitialRows == {i \in 1..Len(schemaVersion) : schemaVersion[i].initial}

\* the tablet starts with an empty schema_version or with one that has a row
TrackerInit ==
    /\ tracker = NoTracker
    /\ \E rows \in {<<>>, <<SchemaRow(1, "create table t (id int)", FALSE)>>} :
          schemaVersion = rows
    /\ vs = NoSession /\ binlog = <<>> /\ vevents = <<>> /\ sent = <<>>

isSchemaVersionTableEmpty == schemaVersion = <<>>

\* (mutation: every start seeds the table)
trackerOpenAlwaysSeeds ==
    /\ ~tracker.open /\ tracker.opens < MaxStarts
    /\ schemaVersion' = Append(schemaVersion, InitialSchemaRow)
    /\ tracker' = [tracker EXCEPT !.open = TRUE, !.opens = @ + 1, !.gtid = 0]
    /\ UNCHANGED <<vs, binlog, vevents, sent, hvars, bvars, fvars>>

\* Tracker.Open: the initial schema is saved at gtid_executed when
\* schema_version has no row; then the tracker follows the stream
trackerOpen ==
    /\ ~tracker.open /\ tracker.opens < MaxStarts
    /\ schemaVersion' = IF isSchemaVersionTableEmpty
                          THEN Append(schemaVersion, InitialSchemaRow)
                          ELSE schemaVersion
    /\ tracker' = [tracker EXCEPT !.open = TRUE, !.opens = @ + 1, !.gtid = 0]
    /\ UNCHANGED <<vs, binlog, vevents, sent, hvars, bvars, fvars>>

\* a GTID event of the stream: the tracker remembers its position
trackerGtid(g) ==
    /\ tracker.open
    /\ tracker' = [tracker EXCEPT !.gtid = g]
    /\ UNCHANGED <<schemaVersion, vs, binlog, vevents, sent, hvars, bvars,
                   fvars>>

\* a DDL event of the stream: an empty statement is passed over, an empty
\* gtid counts an INTERNAL error, anything else is a row of schema_version
\* unless its position is recorded already (the first write wins)
trackerDdl(stmt) ==
    /\ tracker.open
    /\ Len(schemaVersion) < MaxVersions /\ tracker.errors < MaxVersions
    /\ IF stmt = "" THEN UNCHANGED <<schemaVersion, tracker>>
       ELSE IF tracker.gtid = 0
         THEN /\ tracker' = [tracker EXCEPT !.errors = @ + 1]
              /\ UNCHANGED schemaVersion
         ELSE /\ schemaVersion' =
                    IF \E i \in 1..Len(schemaVersion) :
                           schemaVersion[i].pos = tracker.gtid
                      THEN schemaVersion
                      ELSE Append(schemaVersion,
                                  SchemaRow(tracker.gtid, stmt, FALSE))
              /\ UNCHANGED tracker
    /\ UNCHANGED <<vs, binlog, vevents, sent, hvars, bvars, fvars>>

\* Tracker.Close: the stream is cancelled; the rows stay
trackerClose ==
    /\ tracker.open
    /\ tracker' = [tracker EXCEPT !.open = FALSE, !.gtid = 0]
    /\ UNCHANGED <<schemaVersion, vs, binlog, vevents, sent, hvars, bvars,
                   fvars>>

TrackerNext ==
    \/ trackerOpen
    \/ \E g \in StreamGtids : trackerGtid(g)
    \/ \E stmt \in Statements : trackerDdl(stmt)
    \/ trackerClose

InitTracker ==
    /\ HealthInit
    /\ BackupIdle
    /\ FileIdle
    /\ TrackerInit

SpecTracker == InitTracker /\ [][TrackerNext]_vars

\* C28: a start of the tracker inserts the initial-schema row, at
\* gtid_executed, if and only if schema_version is empty; with any row in
\* the table it inserts nothing, no other step adds an initial row, and the
\* table never holds more than one initial row.
C28_InitialSchemaOnce ==
    [][/\ tracker'.opens # tracker.opens =>
             /\ schemaVersion = <<>> =>
                   schemaVersion' = <<InitialSchemaRow>>
             /\ schemaVersion # <<>> => schemaVersion' = schemaVersion
       /\ tracker'.opens = tracker.opens =>
             \A i \in 1..Len(schemaVersion') :
                 schemaVersion'[i].initial =>
                     i <= Len(schemaVersion) /\ schemaVersion[i].initial
       /\ Cardinality({i \in 1..Len(schemaVersion') :
                          schemaVersion'[i].initial}) <= 1]_vars

\* the tracker was started on an empty table, recorded a DDL, and was
\* started again: one initial row, the first of the table
C28_Witness ==
    /\ tracker.opens >= 2 /\ tracker.open
    /\ Len(schemaVersion) >= 2
    /\ InitialRows = {1}
    /\ schemaVersion[1].pos = GtidExecuted

(***************************************************************************)
(* The mutex of the health streamer.                                       *)
(***************************************************************************)

\* SetUnhealthyThreshold is between its first and its last statement
InSetUnhealthyThreshold == sut.pc # "idle"

\* C29: every read and write of hs.state and of hs.clients, and every
\* fan-out, is performed while holding hs.mu: no statement of
\* SetUnhealthyThreshold runs while another operation holds the mutex, and
\* while SetUnhealthyThreshold is between its statements no other operation
\* writes hs.state, changes hs.clients or clones the state.
C29_AccessUnderMutex ==
    [][/\ sut' # sut => mu = "none"
       /\ InSetUnhealthyThreshold /\ sut' = sut =>
             /\ state' = state
             /\ clients' = clients
             /\ produced' = produced]_vars

\* C30: no send is made on a closed channel (the send would panic), a
\* channel that is closed is out of hs.clients from that step on, and a
\* step sends to or closes only channels that are in hs.clients.
C30_NoSendAfterClose ==
    [][/\ panicked' = ""
       /\ \A c \in Chans :
             /\ chClosed'[c] => c \notin clients'
             /\ chClosed[c] => chClosed'[c] /\ Len(chBuf'[c]) <= Len(chBuf[c])
             /\ chClosed'[c] # chClosed[c] \/ Len(chBuf'[c]) > Len(chBuf[c])
                   => c \in clients]_vars

(***************************************************************************)
(* The order of the manifest and the restart in a full backup.             *)
(***************************************************************************)

Succeeded(op) == \E k \in CallsOf(op) : calls[k].ok

\* what steps 9 and 10 of the protocol have to do was done
SettingsRestored ==
    /\ Succeeded("Start")
    /\ Succeeded("SetSuperReadOnly")
    /\ saved.semiSyncSource \/ saved.semiSyncReplica
          => Succeeded("SetSemiSyncEnabled")
    /\ saved.replicaStartRequired => Succeeded("StartReplication")

\* C31: in a full backup the manifest is written only after MySQL was
\* started again and super-read-only, semi-sync and replication were
\* restored, so a full backup whose restart of MySQL failed has no manifest.
C31_ManifestWrittenLast ==
    [][~isIncrementalBackup =>
          /\ manifest'.written /\ ~manifest.written => SettingsRestored
          /\ bret'.returned /\ bret'.err = "can't restart mysqld"
                => ~manifest'.written]_vars

(***************************************************************************)
(* The error check of the copy tasks.                                      *)
(***************************************************************************)

\* C32: a task of backupFiles that leaves its error check while an error is
\* recorded on the handle ends there, with nothing opened and nothing
\* stored for its file entry, and so does a task of restoreFiles with an
\* error on the recorder; a task that has ended touches nothing any more,
\* and a task that is past the check is not stopped by a later error.
C32_NoWorkAfterError ==
    [][\A i \in Files :
          /\ tpc[i] = "check" /\ bhErrors # {} /\ tpc'[i] # "check" =>
                /\ tpc'[i] = "done"
                /\ fes'[i] = NoFileEntry
          /\ tpc[i] = "done" => tpc'[i] = "done" /\ fes'[i] = fes[i]
          /\ tpc[i] \in {"backupFile", "copy"} =>
                tpc'[i] \in {"backupFile", "copy", "done"}
          /\ rtpc[i] = "check" /\ rec # {} /\ rtpc'[i] # "check" =>
                /\ rtpc'[i] = "done"
                /\ ~rres'[i].done /\ disk'[i] = disk[i]
          /\ rtpc[i] = "done" /\ rpc = "restoreFiles" =>
                rtpc'[i] = "done" /\ rres'[i] = rres[i] /\ disk'[i] = disk[i]
          /\ rtpc[i] = "restoreFile" => rtpc'[i] \in {"restoreFile", "done"}]_vars

\* an error came up while one task was copying: the task that reached its
\* check afterwards has ended with nothing stored, the other one goes on
C32_Witness ==
    \/ /\ ~ctxCancelled /\ bhErrors = {"storage"}
       /\ \E i, j \in Files :
             /\ tpc[i] = "done" /\ fes[i] = NoFileEntry
             /\ tpc[j] = "copy" /\ fes[j].broken
    \/ /\ ~rctxDone /\ rec # {}
       /\ \E i, j \in Files :
             /\ rtpc[i] = "done" /\ ~rres[i].done
             /\ rtpc[j] = "done" /\ rres[j].done /\ rres[j].err # ""

(***************************************************************************)
(* The context check of the copy tasks.                                    *)
(***************************************************************************)

\* C33: a task that holds its slot and finds the context done records a
\* cancelled error and copies nothing; a backup with such an error writes no
\* manifest and returns an error, not usable, and a restore with such an
\* error returns an error.
C33_CancelledBeforeCopy ==
    [][/\ \A i \in Files :
             /\ tpc[i] = "check" /\ ctxCancelled /\ tpc'[i] # "check" =>
                   /\ tpc'[i] = "done"
                   /\ "context canceled" \in bhErrors'
                   /\ fes'[i] = NoFileEntry
             /\ rtpc[i] = "check" /\ rctxDone /\ rtpc'[i] # "check" =>
                   /\ rtpc'[i] = "done"
                   /\ "context canceled" \in rec'
                   /\ ~rres'[i].done /\ disk'[i] = disk[i]
       /\ "context canceled" \in bhErrors' =>
             /\ ~manifest'.opened /\ ~manifest'.written
             /\ bret'.returned => bret'.err # "" /\ ~bret'.usable
       /\ "context canceled" \in rec' /\ rret'.returned =>
             rret'.err # ""]_vars

\* the context was cancelled, every task still got its slot, found the
\* context done and copied nothing, and the call has returned its error
C33_Witness ==
    \/ /\ bret.returned /\ bret.err # "" /\ ~manifest.written
       /\ bhErrors = {"context canceled"}
       /\ \A i \in Files : tpc[i] = "done" /\ fes[i] = NoFileEntry
    \/ /\ rret.returned /\ rret.err # ""
       /\ rec = {"context canceled"}
       /\ \A i \in Files : rtpc[i] = "done" /\ ~rres[i].done

(***************************************************************************)
(* The error of closing a sink.                                            *)
(***************************************************************************)

\* what backupFiles returned
BackupFilesErr == IF isIncrementalBackup THEN bret.err ELSE saved.backupErr
ManifestWriteDone == manifest.opened /\ bpc # "MANIFEST.Write"

\* C34: the manifest sink is closed whenever it was opened, and backupFiles
\* returns the error of that Close iff the manifest was encoded and written;
\* the task of backupFile records the error of closing the destination iff
\* the copy had come to its end (the hash is set), and the error of a step
\* otherwise; restoreFile returns the error of closing the destination only
\* when nothing failed before, and the error of the copy when the copy
\* failed, whatever Close did.
C34_CloseErrorOnlyIfNoError ==
    [][/\ ManifestWriteDone' =>
             /\ manifest'.closed \/ manifest'.closeErr
             /\ BackupFilesErr' = "Close"
                   <=> manifest'.written /\ manifest'.closeErr
             /\ ~manifest'.written =>
                   BackupFilesErr' \in {"cannot JSON encode MANIFEST",
                                        "cannot write MANIFEST"}
       /\ \A i \in Files :
             /\ tpc[i] = "copy" /\ tpc'[i] = "done" =>
                   /\ "failed to close file" \in bhErrors' \ bhErrors
                         => fes'[i].hash
                   /\ fes'[i].hash /\ fes'[i].stored = "partial"
                         /\ ~fes[i].broken
                         => "failed to close file" \in bhErrors'
                   /\ ~fes'[i].hash => "backupFile" \in bhErrors'
             /\ rtpc[i] = "restoreFile" /\ rtpc'[i] = "done" =>
                   /\ rres'[i].err = "failed to close destination file" =>
                         /\ rres'[i].fault = "failed to close destination file"
                         /\ disk'[i].flushed
                   /\ rres'[i].fault = "failed to copy file contents" =>
                         rres'[i].err = "failed to copy file contents"]_vars

\* the files were stored and the manifest was written, the Close of its
\* sink failed, and that error is what backupFiles returned
C34_Witness ==
    /\ manifest.written /\ manifest.closeErr
    /\ BackupFilesErr = "Close"
    /\ \A i \in Files : fes[i].stored = "complete"


\* a full backup has returned nil
NilReturn == FullReturned /\ bret.err = ""

SemiSyncWasOn == saved.semiSyncSource \/ saved.semiSyncReplica

\* every call of op1 was made before every call of op2
Before(op1, op2) == \A j \in CallsOf(op1), k \in CallsOf(op2) : j < k

\* C35 (as claimed): a full backup that returns nil leaves super-read-only
\* and both semi-sync flags at the values read before the backup.
C35_SettingsAsFound ==
    NilReturn =>
        /\ mysqld.superReadOnly = saved.superReadOnly
        /\ mysqld.semiSyncSource = saved.semiSyncSource
        /\ mysqld.semiSyncReplica = saved.semiSyncReplica

\* C35: a full backup that returns nil leaves super-read-only at the value
\* read before the backup; when a semi-sync flag was on, both flags were set
\* again to the values read before the backup, and when both were off no
\* SetSemiSyncEnabled call is made, so the flags are what the restart left;
\* replication was started again iff it was healthy before the backup and
\* active reparents are not disabled; and the calls are made in the order
\* Start, SetSuperReadOnly, SetSemiSyncEnabled, StartReplication.
C35_SettingsRestoredWhenSaved ==
    NilReturn =>
        /\ mysqld.superReadOnly = saved.superReadOnly
        /\ Succeeded("SetSuperReadOnly")
        /\ IF SemiSyncWasOn
             THEN /\ Succeeded("SetSemiSyncEnabled")
                  /\ mysqld.semiSyncSource = saved.semiSyncSource
                  /\ mysqld.semiSyncReplica = saved.semiSyncReplica
             ELSE CallsOf("SetSemiSyncEnabled") = {}
        /\ IF saved.replicaStartRequired
             THEN /\ Succeeded("StartReplication")
                  /\ mysqld.replicating
                  /\ ~params.primary /\ ~params.disableActiveReparents
             ELSE /\ CallsOf("StartReplication") = {}
                  /\ ~mysqld.replicating
        /\ Before("Start", "SetSuperReadOnly")
        /\ Before("SetSuperReadOnly", "SetSemiSyncEnabled")
        /\ Before("SetSuperReadOnly", "StartReplication")
        /\ Before("SetSemiSyncEnabled", "StartReplication")

\* A replica with semi-sync on and healthy replication is backed up: the
\* restart switched semi-sync off and super-read-only off, and the backup
\* returned nil with all three restored.
C35_Witness ==
    /\ NilReturn
    /\ saved.semiSyncReplica /\ saved.superReadOnly
    /\ saved.replicaStartRequired
    /\ \E k \in CallsOf("Start") : calls[k].ok
    /\ mysqld.semiSyncReplica /\ mysqld.superReadOnly /\ mysqld.replicating
    /\ Cardinality(CallsOf("SetSemiSyncEnabled")) = 1


\* C36: while the tablet type is not PRIMARY no step is one of a reload past
\* its first check: hs.mu is never held by a reload that took a connection,
\* the table and view names of the state do not change, and no state cloned
\* by reload is made or sent to a subscriber.
C36_ReloadInertOffPrimary ==
    [][state.tabletType # "PRIMARY" =>
          /\ mu' # "reload"
          /\ state'.tables = state.tables
          /\ state'.views = state.views
          /\ \A k \in (Len(produced) + 1)..Len(produced') :
                produced'[k].by # "reload"
          /\ \A c \in Chans : \A k \in 1..Len(chBuf'[c]) :
                produced'[chBuf'[c][k]].by = "reload" =>
                    \E j \in 1..Len(chBuf[c]) : chBuf[c][j] = chBuf'[c][k]]_vars

\* The streamer is open on a REPLICA with a subscriber registered and the
\* lock free, so reload can run; nothing cloned by reload exists.
C36_Witness ==
    /\ Alive /\ hsCancel /\ mu = "none"
    /\ state.tabletType = "REPLICA"
    /\ clients # {}
    /\ \A k \in 1..Len(produced) : produced[k].by # "reload"


\* the file entries whose copy was skipped or cancelled, and those whose
\* copy failed or was not stored whole
NeverCopied == {i \in Files : fes[i] = NoFileEntry}
NotStored == {i \in Files : ~fes[i].hash \/ fes[i].stored # "complete"}

\* C37: a written MANIFEST lists exactly the file entries enumerated for the
\* backup, each with its hash set and its bytes stored; no entry that was
\* skipped, cancelled or failed is listed; nothing is listed before the
\* MANIFEST is written, and the listed entries do not change afterwards.
C37_ManifestListsStoredFiles ==
    [][/\ ~manifest.written => manifest.entries = {}
       /\ manifest'.written =>
            /\ manifest'.entries = Files
            /\ manifest'.entries \cap (NeverCopied' \cup NotStored') = {}
            /\ \A i \in manifest'.entries : fes'[i] = fes[i]]_vars

\* The MANIFEST of an incremental backup was written and closed and lists
\* every binary log file copied, each with its hash.
C37_Witness ==
    /\ manifest.written /\ manifest.closed
    /\ manifest.Incremental
    /\ manifest.entries = Files
    /\ \A i \in manifest.entries : fes[i].hash /\ tpc[i] = "done"


(***************************************************************************)
(* backupFiles and restoreFiles under a fair scheduler: a goroutine that   *)
(* can take its next step takes it, and wg.Wait returns once it can.  The  *)
(* cancellation of the context and the faults of the storage are left to   *)
(* the environment.                                                        *)
(***************************************************************************)
\* the next step of the goroutine backupFiles started for entry i
backupTask(i) ==
    \/ \E ok \in BOOLEAN : taskAcquire(i, ok)
    \/ taskCheck(i)
    \/ \E openOk \in BOOLEAN, statOk \in BOOLEAN, addOk \in BOOLEAN :
          backupFileOpen(i, openOk, statOk, addOk)
    \/ \E res \in CopyResults, closeOk \in BOOLEAN :
          backupFileCopy(i, res, closeOk)

\* the next step of the goroutine restoreFiles started for entry i
restoreTask(i) ==
    \/ \E ok \in BOOLEAN : restoreAcquire(i, ok)
    \/ restoreCheck(i)
    \/ \E fault \in RestoreFaultsOfRestore, closeOk \in BOOLEAN :
          restoreFile(i, fault, closeOk)

FairCopy ==
    /\ \A i \in Files : WF_vars(backupTask(i)) /\ WF_vars(restoreTask(i))
    /\ WF_vars(backupFilesWait)
    /\ WF_vars(restoreFilesWait)

SpecCopyFair == InitCopy /\ [][CopyNext]_vars /\ FairCopy

BackupTasksDone == \A i \in Files : tpc[i] = "done"
RestoreTasksDone == \A i \in Files : rtpc[i] = "done"

\* C38: backupFiles and restoreFiles terminate.  Once the tasks are started,
\* every task finishes, the slots are all released and wg.Wait returns,
\* whatever is cancelled or fails meanwhile; and wg.Wait never returns with
\* a task unfinished or a slot in use.
C38_FilesTerminate ==
    /\ (bpc = "wg.Wait") ~> (BackupTasksDone /\ sema = 0 /\ bpc # "wg.Wait")
    /\ (rpc = "restoreFiles")
          ~> (RestoreTasksDone /\ rsema = 0 /\ rpc # "restoreFiles")
    /\ [](BackupTasksDone => sema = 0)
    /\ [](RestoreTasksDone => rsema = 0)

\* wg.Wait of a backup has returned after a task was cancelled, a task
\* failed and the rest ran, with every slot released.
C38_Witness ==
    /\ bpc \notin {"ExecuteBackup", "wg.Wait", "backupFiles"}
    /\ BackupTasksDone /\ sema = 0
    /\ \E i \in Files : fes[i] # NoFileEntry
    /\ ctxCancelled
    /\ "context canceled" \in bhErrors


(***************************************************************************)
(* The health streamer under a fair scheduler: the holder of hs.mu goes    *)
(* on, a goroutine waiting for hs.mu gets it (sync.Mutex does not starve), *)
(* and a select with a ready case that stays ready takes it.               *)
(***************************************************************************)
\* the steps of the Stream call on channel c that no caller has to allow
streamStep(c) ==
    /\ \/ registerSend(c)
       \/ StreamClosed(c)
       \/ StreamHsCtxDone(c)
    /\ UNCHANGED <<bvars, fvars, vvars>>

streamUnregister(c) == unregister(c) /\ UNCHANGED <<bvars, fvars, vvars>>

reloadUnlock == reloadClear /\ UNCHANGED <<bvars, fvars, vvars>>

FairHealth ==
    /\ \A c \in Chans : WF_vars(streamStep(c)) /\ SF_vars(streamUnregister(c))
    /\ WF_vars(reloadUnlock)

SpecHealthFair == Init /\ [][HealthNext]_vars /\ FairHealth

\* the Stream call on c registered with a streamer context that Close has
\* cancelled since, and has not returned
InProgressAfterClose(c) ==
    /\ pcStream[c] \in {"loop", "unregister"}
    /\ streamCtx[c] \in ctxDone

Returned(c) == pcStream[c] = "done" /\ c \notin clients

\* Under the fair scheduler every Stream call in progress after Close
\* returns and leaves hs.clients, also when the streamer is opened again.
StreamsReturnAfterClose ==
    \A c \in Chans : InProgressAfterClose(c) ~> Returned(c)

\* ... as long as SetUnhealthyThreshold is not called
StreamsReturnAfterCloseLocked ==
    [](sut.pc = "idle") => StreamsReturnAfterClose

\* C39: after Close every Stream call in progress eventually returns and
\* leaves the client set, also when the streamer is opened again meanwhile.
\* In particular no state is reached where such a call is in progress and
\* the process has panicked, from where the call never returns.
C39_StreamCanReturn ==
    \A c \in Chans : InProgressAfterClose(c) => Alive


(***************************************************************************)
(* The fan-out scenario: an open streamer with MaxSubscribers Stream       *)
(* calls, each reading or not, while states are pushed with ChangeState    *)
(* and reload.                                                             *)
(***************************************************************************)
FanNext ==
    \/ /\ Open
       /\ UNCHANGED <<bvars, fvars, vvars>>
    \/ /\ \E c \in Chans : MoreClones /\ registerInsert(c)
       /\ UNCHANGED <<bvars, fvars, vvars>>
    \/ /\ \E c \in Chans : registerSend(c)
       /\ UNCHANGED <<bvars, fvars, vvars>>
    \/ /\ \E tt \in TabletTypes, ter \in TerTimestamps, lag \in Lags,
             err \in HealthErrors, serving \in Servings :
             MoreClones /\ ChangeState(tt, ter, lag, err, serving)
       /\ UNCHANGED <<bvars, fvars, vvars>>
    \/ /\ \E connOk \in BOOLEAN, t \in TableResults, v \in ViewResults :
             MoreClones /\ reloadBroadcast(connOk, t, v)
       /\ UNCHANGED <<bvars, fvars, vvars>>
    \/ /\ reloadClear
       /\ UNCHANGED <<bvars, fvars, vvars>>
    \/ /\ \E c \in Chans, cb \in CallbackResults : StreamRecv(c, cb)
       /\ UNCHANGED <<bvars, fvars, vvars>>
    \/ /\ \E c \in Chans : StreamClosed(c)
       /\ UNCHANGED <<bvars, fvars, vvars>>
    \/ /\ \E c \in Chans : StreamCtxDone(c)
       /\ UNCHANGED <<bvars, fvars, vvars>>
    \/ /\ \E c \in Chans : unregister(c)
       /\ UNCHANGED <<bvars, fvars, vvars>>

SpecFan == Init /\ [][FanNext]_vars

\* this step is a broadcast of ChangeState or of reload that went through
Broadcast ==
    /\ Len(produced') = Len(produced) + 1
    /\ produced'[Len(produced')].by \in {"ChangeState", "reload"}
    /\ panicked' = ""

\* this step is the deferred unregister of the Stream call on c
Unregisters(c) == pcStream[c] = "unregister" /\ pcStream'[c] = "done"

====
